---- MODULE Spec2Model ----
(***************************************************************************)
(* The keiba analytics engine (KeibaAnalyzer, src/analyzer.py) over the    *)
(* relational store written by DatabaseManager (src/database.py), with the *)
(* two Flask handlers of src/api/index.py that forward to it.              *)
(*                                                                         *)
(* Conventions of the model                                                *)
(*  - a NULL column / Python None is Absent for numbers and dates and      *)
(*    NoneStr for strings;                                                 *)
(*  - dates are day numbers, Today is datetime.now().date();               *)
(*  - a Python float is an exact fraction <<numerator, denominator>>       *)
(*    (denominator > 0), compared by cross-multiplication; a None mean is  *)
(*    the empty tuple NoMean.  Odds are whole numbers;                     *)
(*  - a query without ORDER BY returns rows in primary-key order: the      *)
(*    race_results table is the sequence `results` in ascending id, the    *)
(*    races table is read in the order RaceOrder;                          *)
(*  - ids are assigned as SQLite assigns an INTEGER PRIMARY KEY declared   *)
(*    without the AUTOINCREMENT keyword (the default sqlite:/// url):      *)
(*    largest id in the table + 1;                                         *)
(*  - a session is a transaction: what it deletes and adds is read by      *)
(*    other sessions from its commit on, and dropped by its rollback;      *)
(*  - the rows of the model carry the columns the engine reads.            *)
(***************************************************************************)
EXTENDS Integers, Sequences, FiniteSets, TLC

Absent == -1

NoneStr == "NULL"

NoMean == << >>

Today == 1000

\* Bounds of the model: rows of race_results in a drawn data set of the
\* statistics, scoring (general / many entries / long history), backtest
\* (totals / selection), jockey and hot-horse (eligibility / ranking)
\* families, and rows and ids under the collaborator's writes.
MaxRowsStats == 2

MaxRowsScore == 4

MaxEntries == 4

MaxRowsRecent == 7

MaxRowsReturn == 2

MaxRowsSelect == 2

MaxRowsJockey == 2

MaxRowsEligible == 3

MaxRowsHot == 4

MaxRows == 2

MaxId == 3

RaceIds == {"r1", "r2", "r3"}

RaceOrder == <<"r1", "r2", "r3">>

HorseIds == {"h1", "h2"}

VARIABLES
    races,      \* table races: a set of Race rows, at most one per race_id
    horses,     \* table horses: the horse_ids that have a Horse row
    horse_name, \* table horses, column horse_name: a function on horses
    results,    \* table race_results: RaceResult rows in ascending id
    pc,         \* position of the engine call in progress, "idle" if none
    frame,      \* local variables of the engine call in progress
    ret,        \* what the operation that just completed returned
    sessions,   \* sessions opened and not yet closed, by the engine and by
                \* the save operations
    wpc,        \* position of the save operation in progress, "idle" if none
    wframe      \* local variables and open transaction of that save operation

vars == <<races, horses, horse_name, results, pc, frame, ret,
          sessions, wpc, wframe>>

NoFrame == [op |-> "none"]

NoRet == [op |-> "none"]

NoSessions == [engine |-> 0, writer |-> 0]

\* DatabaseManager.get_session: one more open session.
GetSession(n) == n + 1

\* Variant with session.close() after the body instead of in a finally
\* clause: a raised failure skips it.
CloseOnReturnOnly(n, outcome) == IF outcome.kind = "ok" THEN n - 1 ELSE n

\* try: ... finally: session.close(): the session is closed whatever the
\* outcome of the body.
CloseInFinally(n, outcome) == n - 1

(***************************************************************************)
(* Python and SQL primitives                                               *)
(***************************************************************************)

\* bool(x) of an Optional[int]: None and 0 are falsy.
Truthy(x) == x # Absent /\ x # 0

\* bool(s) of an Optional[str]: None and '' are falsy.
TruthyStr(s) == s # NoneStr /\ s # ""

Frac(n, d) == <<n, d>>

RatEq(a, b) == a[1] * b[2] = b[1] * a[2]

RatLess(a, b) == a[1] * b[2] < b[1] * a[2]

RatAdd(a, b) == <<a[1] * b[2] + b[1] * a[2], a[2] * b[2]>>

RECURSIVE SeqSum(_)
SeqSum(s) == IF s = << >> THEN 0 ELSE Head(s) + SeqSum(Tail(s))

\* Mutant of MeanOrNone: 0 for the mean of no values.
MeanOrZero(xs) == IF xs = << >> THEN Frac(0, 1) ELSE Frac(SeqSum(xs), Len(xs))

\* np.mean(xs) if xs else None
MeanOrNone(xs) == IF xs = << >> THEN NoMean ELSE Frac(SeqSum(xs), Len(xs))

\* the elements a comprehension over s visits
Range(s) == {s[i] : i \in 1..Len(s)}

\* [f(x) for x in s]
Map(s, f) == [i \in 1..Len(s) |-> f[s[i]]]

\* sum(1 for x in s if p(x))
Count(s, p) == Len(SelectSeq(s, LAMBDA x : p[x]))

Ok(v) == [kind |-> "ok", value |-> v]

Raise(e) == [kind |-> "raise", error |-> e]

(***************************************************************************)
(* The store                                                               *)
(***************************************************************************)

HasRace(rid) == \E x \in races : x.race_id = rid

RaceOf(rid) == CHOOSE x \in races : x.race_id = rid

HasHorse(hid) == hid \in horses

\* The id SQLite gives the next inserted RaceResult of table t.
NextId(t) == IF t = << >> THEN 1 ELSE t[Len(t)].id + 1

\* dict.get(key) of a numeric or date field: None for a missing key.  Variant
\* defaulting to 0.
GetNumZeroDefault(d, key) == IF key \in DOMAIN d THEN d[key] ELSE 0

GetNum(d, key) == IF key \in DOMAIN d THEN d[key] ELSE Absent

\* dict.get(key) of a text field
GetStr(d, key) == IF key \in DOMAIN d THEN d[key] ELSE NoneStr

\* The Race object save_race builds from race_data.
RaceRow(race_data) ==
    [race_id |-> race_data.race_id,
     race_date |-> GetNum(race_data, "race_date"),
     distance |-> GetNum(race_data, "distance"),
     track_condition |-> GetStr(race_data, "track_condition")]

\* The RaceResult object save_race_results builds from one result_data, as
\* the row the database stores for it under the id it generates.
ResultRow(id, race_id, result_data) ==
    [id |-> id,
     race_id |-> race_id,
     horse_id |-> GetStr(result_data, "horse_id"),
     ranking |-> GetNum(result_data, "ranking"),
     jockey |-> GetStr(result_data, "jockey"),
     odds |-> GetNum(result_data, "odds"),
     popularity |-> GetNum(result_data, "popularity")]

\* Variant in which other sessions read the uncommitted changes of a
\* transaction.
ReadUncommitted(committed, working) == working

\* The table other sessions read while a session holds uncommitted changes
\* to it: the changes are published by session.commit() only.
VisibleToOthers(committed, working) == committed

\* Variant of the failure path without session.rollback().
RollbackKeepsChanges(committed, working) == working

\* session.rollback(): the changes of the transaction are dropped.
Rollback(committed, working) == committed

\* DatabaseManager.get_race_results: the rows of the race, in a session of
\* its own.
get_race_results(race_id) == SelectSeq(results, LAMBDA r : r.race_id = race_id)

\* Variant of the delete that removes nothing.
DeleteNothing(t, race_id) == t

\* filter_by(race_id=race_id).delete() on table t
DeleteByRace(t, race_id) == SelectSeq(t, LAMBDA r : r.race_id # race_id)

\* A save operation has created its session and entered its try block;
\* wframe.before is the table it writes to as it was then.
SaveRaceBegin(race_data) ==
    /\ wpc = "idle"
    /\ wpc' = "save_race"
    /\ wframe' = [op |-> "save_race", race_data |-> race_data, before |-> races]
    /\ sessions' = [sessions EXCEPT !.writer = GetSession(@)]
    /\ UNCHANGED <<races, horses, horse_name, results, pc, frame, ret>>

\* DatabaseManager.save_race, normal path: session.merge upserts by primary
\* key, commit, return True.
SaveRaceCommit ==
    /\ wpc = "save_race"
    /\ "race_id" \in DOMAIN wframe.race_data
    /\ LET race == RaceRow(wframe.race_data)
       IN  races' = {x \in races : x.race_id # race.race_id} \cup {race}
    /\ ret' = [op |-> "save_race", res |-> Ok(TRUE)]
    /\ wpc' = "idle"
    /\ wframe' = NoFrame
    /\ sessions' = [sessions EXCEPT !.writer = CloseInFinally(@, ret'.res)]
    /\ UNCHANGED <<horses, horse_name, results, pc, frame>>

\* DatabaseManager.save_race, except path: race_data['race_id'] raised
\* KeyError or the database failed; rollback, return False.
SaveRaceFails ==
    /\ wpc = "save_race"
    /\ ret' = [op |-> "save_race", res |-> Ok(FALSE)]
    /\ wpc' = "idle"
    /\ wframe' = NoFrame
    /\ sessions' = [sessions EXCEPT !.writer = CloseInFinally(@, ret'.res)]
    /\ UNCHANGED <<races, horses, horse_name, results, pc, frame>>

SaveHorseBegin(horse_data) ==
    /\ wpc = "idle"
    /\ wpc' = "save_horse"
    /\ wframe' = [op |-> "save_horse", horse_data |-> horse_data,
                  before |-> <<horses, horse_name>>]
    /\ sessions' = [sessions EXCEPT !.writer = GetSession(@)]
    /\ UNCHANGED <<races, horses, horse_name, results, pc, frame, ret>>

\* DatabaseManager.save_horse, normal path
SaveHorseCommit ==
    /\ wpc = "save_horse"
    /\ "horse_id" \in DOMAIN wframe.horse_data
    /\ LET horse_id == wframe.horse_data.horse_id
       IN  /\ horses' = horses \cup {horse_id}
           /\ horse_name' = [h \in horses \cup {horse_id} |->
                               IF h = horse_id
                               THEN GetStr(wframe.horse_data, "horse_name")
                               ELSE horse_name[h]]
    /\ ret' = [op |-> "save_horse", res |-> Ok(TRUE)]
    /\ wpc' = "idle"
    /\ wframe' = NoFrame
    /\ sessions' = [sessions EXCEPT !.writer = CloseInFinally(@, ret'.res)]
    /\ UNCHANGED <<races, results, pc, frame>>

\* DatabaseManager.save_horse, except path
SaveHorseFails ==
    /\ wpc = "save_horse"
    /\ ret' = [op |-> "save_horse", res |-> Ok(FALSE)]
    /\ wpc' = "idle"
    /\ wframe' = NoFrame
    /\ sessions' = [sessions EXCEPT !.writer = CloseInFinally(@, ret'.res)]
    /\ UNCHANGED <<races, horses, horse_name, results, pc, frame>>

\* DatabaseManager.save_race_results up to the delete.  wframe.table is the
\* race_results table as the transaction of the session sees it,
\* wframe.before the table as it was when the transaction began.
SaveRaceResultsBegin(race_id, rows) ==
    /\ wpc = "idle"
    /\ LET kept == SelectSeq(results, LAMBDA r : r.race_id # race_id)
       IN /\ Len(kept) + Len(rows) <= MaxRows
          /\ NextId(kept) + Len(rows) - 1 <= MaxId
    /\ wpc' = "delete"
    /\ wframe' = [op |-> "save_race_results", race_id |-> race_id,
                  results |-> rows, i |-> 0, before |-> results,
                  table |-> results]
    /\ sessions' = [sessions EXCEPT !.writer = GetSession(@)]
    /\ UNCHANGED <<races, horses, horse_name, results, pc, frame, ret>>

\* session.query(RaceResult).filter_by(race_id=race_id).delete()
SaveRaceResultsDelete ==
    /\ wpc = "delete"
    /\ wpc' = "add"
    /\ wframe' = [wframe EXCEPT
                    !.table = DeleteByRace(@, wframe.race_id)]
    /\ results' = VisibleToOthers(results, wframe'.table)
    /\ UNCHANGED <<races, horses, horse_name, pc, frame, ret, sessions>>

\* One turn of the loop: the RaceResult of the next result_data is added to
\* the session, which inserts the added rows in this order.
SaveRaceResultsAdd ==
    /\ wpc = "add"
    /\ wframe.i < Len(wframe.results)
    /\ wframe' = [wframe EXCEPT
                    !.table = Append(@, ResultRow(NextId(@), wframe.race_id,
                                                  wframe.results[wframe.i + 1])),
                    !.i = @ + 1]
    /\ results' = VisibleToOthers(results, wframe'.table)
    /\ UNCHANGED <<races, horses, horse_name, pc, frame, ret, sessions, wpc>>

\* After the loop: session.commit(), return True.
SaveRaceResultsCommit ==
    /\ wpc = "add"
    /\ wframe.i = Len(wframe.results)
    /\ results' = wframe.table
    /\ ret' = [op |-> "save_race_results", race_id |-> wframe.race_id,
               added |-> wframe.i, res |-> Ok(TRUE)]
    /\ wpc' = "idle"
    /\ wframe' = NoFrame
    /\ sessions' = [sessions EXCEPT !.writer = CloseInFinally(@, ret'.res)]
    /\ UNCHANGED <<races, horses, horse_name, pc, frame>>

\* An exception in the delete, in the loop or in the commit: rollback, return
\* False.
SaveRaceResultsFails ==
    /\ wpc \in {"delete", "add"}
    /\ results' = Rollback(results, wframe.table)
    /\ ret' = [op |-> "save_race_results", race_id |-> wframe.race_id,
               added |-> wframe.i, res |-> Ok(FALSE)]
    /\ wpc' = "idle"
    /\ wframe' = NoFrame
    /\ sessions' = [sessions EXCEPT !.writer = CloseInFinally(@, ret'.res)]
    /\ UNCHANGED <<races, horses, horse_name, pc, frame>>

GetRaceResults(race_id) ==
    /\ wpc = "idle"
    /\ ret' = [op |-> "get_race_results", race_id |-> race_id,
               res |-> Ok(get_race_results(race_id))]
    /\ sessions' = [sessions EXCEPT
                       !.writer = CloseInFinally(GetSession(@), ret'.res)]
    /\ UNCHANGED <<races, horses, horse_name, results, pc, frame, wpc, wframe>>

\* Sequences over S of length 0..n
SeqsUpTo(S, n) == UNION {[1..k -> S] : k \in 0..n}

\* The state after construction: create_all on an empty database.
Init ==
    /\ races = {}
    /\ horses = {}
    /\ results = << >>
    /\ horse_name = [h \in horses |-> NoneStr]
    /\ pc = "idle"
    /\ frame = NoFrame
    /\ ret = NoRet
    /\ sessions = NoSessions
    /\ wpc = "idle"
    /\ wframe = NoFrame

\* The stored data sets the engine specifications start from: every races
\* table with at most one row per race_id of ids and fields in F, and every
\* race_results table of at most n rows drawn from R, ids 1..Len in table
\* order.
RaceTables(ids, F) ==
    {{[race_id |-> r] @@ f[r] : r \in S} : S \in SUBSET ids, f \in [ids -> F]}

ResultTables(R, n) ==
    {[i \in 1..Len(s) |-> [id |-> i] @@ s[i]] : s \in SeqsUpTo(R, n)}

(***************************************************************************)
(* Statistics module                                                       *)
(***************************************************************************)

\* session.query(RaceResult).join(Race).filter(RaceResult.horse_id == horse_id,
\*                                             Race.race_date >= cutoff_date)
WindowRows(horse_id, days) ==
    SelectSeq(results, LAMBDA r :
        /\ r.horse_id = horse_id
        /\ HasRace(r.race_id)
        /\ RaceOf(r.race_id).race_date # Absent
        /\ RaceOf(r.race_id).race_date >= Today - days)

calculate_win_rate(horse_id, days) ==
    LET rs == WindowRows(horse_id, days)
        total_races == Len(rs)
        wins == Count(rs, [r \in Range(rs) |-> r.ranking = 1])
        top3 == Count(rs, [r \in Range(rs) |-> r.ranking <= 3])
    IN  IF rs = << >>
        THEN Ok([total_races |-> 0, wins |-> 0,
                 win_rate |-> Frac(0, 1), top3_rate |-> Frac(0, 1)])
        ELSE IF \E i \in 1..Len(rs) : rs[i].ranking = Absent
        THEN Raise("TypeError")      \* None <= 3
        ELSE Ok([total_races |-> total_races, wins |-> wins,
                 win_rate |-> Frac(wins * 100, total_races),
                 top3_rate |-> Frac(top3 * 100, total_races)])

CalculateWinRate(horse_id, days) ==
    /\ pc = "idle"
    /\ ret' = [op |-> "calculate_win_rate", horse_id |-> horse_id, days |-> days,
               res |-> calculate_win_rate(horse_id, days)]
    /\ sessions' = [sessions EXCEPT
                       !.engine = CloseInFinally(GetSession(@), ret'.res)]
    /\ UNCHANGED <<races, horses, horse_name, results, pc, frame, wpc, wframe>>

\* session.query(RaceResult).join(Race).filter(RaceResult.jockey == jockey_name,
\*                                             Race.race_date >= cutoff_date)
JockeyRows(jockey_name, days) ==
    SelectSeq(results, LAMBDA r :
        /\ r.jockey # NoneStr
        /\ r.jockey = jockey_name
        /\ HasRace(r.race_id)
        /\ RaceOf(r.race_id).race_date # Absent
        /\ RaceOf(r.race_id).race_date >= Today - days)

\* Mutant of EmptyJockeyRecord: zero means where no result matched.
EmptyJockeyRecordZeroMeans ==
    [total_races |-> 0, wins |-> 0, win_rate |-> Frac(0, 1),
     avg_ranking |-> Frac(0, 1), avg_odds |-> Frac(0, 1)]

\* The record analyze_jockey_performance returns if not results.
EmptyJockeyRecord ==
    [total_races |-> 0, wins |-> 0, win_rate |-> Frac(0, 1),
     avg_ranking |-> NoMean, avg_odds |-> NoMean]

analyze_jockey_performance(jockey_name, days) ==
    LET rs == JockeyRows(jockey_name, days)
        total_races == Len(rs)
        wins == Count(rs, [r \in Range(rs) |-> r.ranking = 1])
        rankings == Map(SelectSeq(rs, LAMBDA r : Truthy(r.ranking)),
                        [r \in Range(rs) |-> r.ranking])
        odds == Map(SelectSeq(rs, LAMBDA r : Truthy(r.odds)),
                    [r \in Range(rs) |-> r.odds])
    IN  IF rs = << >>
        THEN Ok(EmptyJockeyRecord)
        ELSE Ok([total_races |-> total_races, wins |-> wins,
                 win_rate |-> Frac(wins * 100, total_races),
                 avg_ranking |-> MeanOrNone(rankings),
                 avg_odds |-> MeanOrNone(odds)])

AnalyzeJockeyPerformance(jockey_name, days) ==
    /\ pc = "idle"
    /\ ret' = [op |-> "analyze_jockey_performance", jockey_name |-> jockey_name,
               days |-> days, res |-> analyze_jockey_performance(jockey_name, days)]
    /\ sessions' = [sessions EXCEPT
                       !.engine = CloseInFinally(GetSession(@), ret'.res)]
    /\ UNCHANGED <<races, horses, horse_name, results, pc, frame, wpc, wframe>>

\* session.query(RaceResult, Race).join(Race).filter(RaceResult.horse_id == horse_id)
HorseRows(horse_id) ==
    SelectSeq(results, LAMBDA r : r.horse_id = horse_id /\ HasRace(r.race_id))

UnknownLabel == "fumei"     \* the label '不明'

\* condition = race.track_condition or '不明'
ConditionOf(r) ==
    LET c == RaceOf(r.race_id).track_condition
    IN  IF TruthyStr(c) THEN c ELSE UnknownLabel

\* The stat tuple of one group: the rows counted in it, in query order.
GroupStats(rs) ==
    LET races_n == Len(rs)
        wins == Count(rs, [r \in Range(rs) |-> r.ranking = 1])
        rankings == Map(SelectSeq(rs, LAMBDA r : Truthy(r.ranking)),
                        [r \in Range(rs) |-> r.ranking])
    IN  [races |-> races_n, wins |-> wins, rankings |-> rankings,
         win_rate |-> IF races_n > 0 THEN Frac(wins * 100, races_n) ELSE Frac(0, 1),
         avg_ranking |-> MeanOrNone(rankings)]

analyze_track_condition(horse_id) ==
    LET rs == HorseRows(horse_id)
        labels == {ConditionOf(rs[i]) : i \in 1..Len(rs)}
    IN  Ok([c \in labels |->
              GroupStats(SelectSeq(rs, LAMBDA r : ConditionOf(r) = c))])

\* Variant that stores the label it uses for a missing track condition in
\* the Race rows of the horse's results.
AnalyzeTrackConditionStoring(horse_id) ==
    /\ pc = "idle"
    /\ ret' = [op |-> "analyze_track_condition", horse_id |-> horse_id,
               res |-> analyze_track_condition(horse_id)]
    /\ races' = {IF \E i \in 1..Len(results) :
                       results[i].horse_id = horse_id /\ results[i].race_id = x.race_id
                 THEN [x EXCEPT !.track_condition = ConditionOf(x)]
                 ELSE x : x \in races}
    /\ sessions' = [sessions EXCEPT
                       !.engine = CloseInFinally(GetSession(@), ret'.res)]
    /\ UNCHANGED <<horses, horse_name, results, pc, frame, wpc, wframe>>

AnalyzeTrackCondition(horse_id) ==
    /\ pc = "idle"
    /\ ret' = [op |-> "analyze_track_condition", horse_id |-> horse_id,
               res |-> analyze_track_condition(horse_id)]
    /\ sessions' = [sessions EXCEPT
                       !.engine = CloseInFinally(GetSession(@), ret'.res)]
    /\ UNCHANGED <<races, horses, horse_name, results, pc, frame, wpc, wframe>>

\* distance_categories, in dict order
DistanceCategories ==
    << [name |-> "sprint", min |-> 0, max |-> 1400],
       [name |-> "mile", min |-> 1400, max |-> 1800],
       [name |-> "intermediate", min |-> 1800, max |-> 2200],
       [name |-> "long", min |-> 2200, max |-> 9999] >>

BandNames == {DistanceCategories[i].name : i \in 1..Len(DistanceCategories)}

\* Variant with the intervals closed below and open above.
InBandOpenAbove(d, k) ==
    DistanceCategories[k].min <= d /\ d < DistanceCategories[k].max

InBand(d, k) == DistanceCategories[k].min < d /\ d <= DistanceCategories[k].max

\* The band a result is counted in: the first whose interval holds the
\* distance (then break); "none" when race.distance is falsy or no interval
\* holds it.
BandOf(r) ==
    LET d == RaceOf(r.race_id).distance
        hits == {k \in 1..Len(DistanceCategories) : InBand(d, k)}
    IN  IF ~Truthy(d) \/ hits = {} THEN "none"
        ELSE DistanceCategories[CHOOSE k \in hits : \A j \in hits : k <= j].name

analyze_distance_performance(horse_id) ==
    LET rs == HorseRows(horse_id)
    IN  Ok([b \in BandNames |->
              GroupStats(SelectSeq(rs, LAMBDA r : BandOf(r) = b))])

AnalyzeDistancePerformance(horse_id) ==
    /\ pc = "idle"
    /\ ret' = [op |-> "analyze_distance_performance", horse_id |-> horse_id,
               res |-> analyze_distance_performance(horse_id)]
    /\ sessions' = [sessions EXCEPT
                       !.engine = CloseInFinally(GetSession(@), ret'.res)]
    /\ UNCHANGED <<races, horses, horse_name, results, pc, frame, wpc, wframe>>

(***************************************************************************)
(* Scoring module: predict_race_result and the handler predict_race        *)
(***************************************************************************)

RecentLimit == 5

RatSub(a, b) == <<a[1] * b[2] - b[1] * a[2], a[2] * b[2]>>

RatScale(a, k) == <<a[1] * k, a[2]>>

\* session.query(RaceResult, Horse).join(Horse).filter(RaceResult.race_id == race_id)
PredictEntries(race_id) ==
    SelectSeq(results, LAMBDA r : r.race_id = race_id /\ HasHorse(r.horse_id))

\* .order_by(RaceResult.id.desc())
RECURSIVE OrderByIdDesc(_)
OrderByIdDesc(S) ==
    IF S = {} THEN << >>
    ELSE LET m == CHOOSE r \in S : \A q \in S : q.id <= r.id
         IN  <<m>> \o OrderByIdDesc(S \ {m})

\* .limit(n)
Limit(s, n) == SubSeq(s, 1, IF Len(s) < n THEN Len(s) ELSE n)

\* .order_by(Race.race_date.desc()): by race date, newest first
RECURSIVE OrderByDateDesc(_)
OrderByDateDesc(S) ==
    IF S = {} THEN << >>
    ELSE LET m == CHOOSE r \in S : \A q \in S :
                    \/ RaceOf(q.race_id).race_date < RaceOf(r.race_id).race_date
                    \/ /\ RaceOf(q.race_id).race_date = RaceOf(r.race_id).race_date
                       /\ q.id <= r.id
         IN  <<m>> \o OrderByDateDesc(S \ {m})

\* Mutant of PastResults: the five most recent other results by race date.
PastResultsByDate(horse_id, race_id) ==
    Limit(OrderByDateDesc({results[i] : i \in {j \in 1..Len(results) :
                            /\ results[j].horse_id = horse_id
                            /\ results[j].race_id # race_id}}),
          RecentLimit)

\* session.query(RaceResult).filter(RaceResult.horse_id == horse_id,
\*     RaceResult.race_id != race_id).order_by(RaceResult.id.desc()).limit(5)
PastResults(horse_id, race_id) ==
    Limit(OrderByIdDesc({results[i] : i \in {j \in 1..Len(results) :
                            /\ results[j].horse_id = horse_id
                            /\ results[j].race_id # race_id}}),
          RecentLimit)

\* Mutant of ScoreOf: the win rate taken over five results, however many the
\* horse has.
ScoreOfWinsOverFive(entry, past_results) ==
    LET recent_rankings == Map(SelectSeq(past_results, LAMBDA r : Truthy(r.ranking)),
                               [r \in Range(past_results) |-> r.ranking])
        wins == Count(past_results, [r \in Range(past_results) |-> r.ranking = 1])
        s0 == Frac(0, 1)
        s1 == IF past_results # << >> /\ recent_rankings # << >>
              THEN RatAdd(s0, RatScale(RatSub(Frac(20, 1),
                                              MeanOrNone(recent_rankings)), 5))
              ELSE s0
        s2 == IF past_results # << >>
              THEN RatAdd(s1, RatScale(Frac(wins * 100, RecentLimit), 2))
              ELSE s1
    IN  IF Truthy(entry.popularity)
        THEN RatAdd(s2, Frac((20 - entry.popularity) * 3, 1))
        ELSE s2

\* The score of one entry given its past_results.
ScoreOf(entry, past_results) ==
    LET recent_rankings == Map(SelectSeq(past_results, LAMBDA r : Truthy(r.ranking)),
                               [r \in Range(past_results) |-> r.ranking])
        wins == Count(past_results, [r \in Range(past_results) |-> r.ranking = 1])
        s0 == Frac(0, 1)
        s1 == IF past_results # << >> /\ recent_rankings # << >>
              THEN RatAdd(s0, RatScale(RatSub(Frac(20, 1),
                                              MeanOrNone(recent_rankings)), 5))
              ELSE s0
        s2 == IF past_results # << >>
              THEN RatAdd(s1, RatScale(Frac(wins * 100, Len(past_results)), 2))
              ELSE s1
    IN  IF Truthy(entry.popularity)
        THEN RatAdd(s2, Frac((20 - entry.popularity) * 3, 1))
        ELSE s2

Prediction(entry, score) ==
    [horse_id |-> entry.horse_id, score |-> score, jockey |-> entry.jockey,
     popularity |-> entry.popularity]

\* Mutant of InsertByScore: a sort that puts x before the elements of equal
\* score.
InsertByScoreUnstable(sorted, x) ==
    LET k == Cardinality({i \in 1..Len(sorted) : RatLess(x.score, sorted[i].score)})
    IN  SubSeq(sorted, 1, k) \o <<x>> \o SubSeq(sorted, k + 1, Len(sorted))

\* Where list.sort(key=score, reverse=True), which is stable, puts x in a list
\* already sorted: behind every element whose score is not smaller.
InsertByScore(sorted, x) ==
    LET k == Cardinality({i \in 1..Len(sorted) : ~RatLess(sorted[i].score, x.score)})
    IN  SubSeq(sorted, 1, k) \o <<x>> \o SubSeq(sorted, k + 1, Len(sorted))

\* predictions.sort(key=lambda x: x['score'], reverse=True)
RECURSIVE SortByScore(_)
SortByScore(s) ==
    IF s = << >> THEN << >>
    ELSE InsertByScore(SortByScore(SubSeq(s, 1, Len(s) - 1)), s[Len(s)])

\* for i, pred in enumerate(predictions): pred['predicted_rank'] = i + 1
WithRanks(s) == [i \in 1..Len(s) |-> [predicted_rank |-> i] @@ s[i]]

\* The handler predict_race of the API on the engine's result.
predict_race(race_id, res) ==
    IF res.kind = "raise" THEN [status |-> 500, error |-> res.error]
    ELSE IF res.value = << >>
    THEN [status |-> 404, error |-> "No predictions available"]
    ELSE [status |-> 200, race_id |-> race_id,
          predictions |-> Limit(res.value, 10)]

\* predict_race_result up to the start of its loop over the entries.
PredictStart(race_id) ==
    /\ pc = "idle"
    /\ pc' = "predict_loop"
    /\ frame' = [op |-> "predict_race_result", race_id |-> race_id,
                 entries |-> PredictEntries(race_id), i |-> 1,
                 past_results |-> << >>, predictions |-> << >>]
    /\ ret' = NoRet
    /\ sessions' = [sessions EXCEPT !.engine = GetSession(@)]
    /\ UNCHANGED <<races, horses, horse_name, results, wpc, wframe>>

\* The query of one entry's past results.
PredictQueryPast ==
    /\ pc = "predict_loop"
    /\ frame.i <= Len(frame.entries)
    /\ pc' = "predict_score"
    /\ frame' = [frame EXCEPT !.past_results =
                    PastResults(frame.entries[frame.i].horse_id, frame.race_id)]
    /\ UNCHANGED <<races, horses, horse_name, results, ret, sessions, wpc, wframe>>

\* The rest of the loop body: the entry's score and its prediction.
PredictScore ==
    /\ pc = "predict_score"
    /\ pc' = "predict_loop"
    /\ LET entry == frame.entries[frame.i]
       IN  frame' = [frame EXCEPT
                        !.predictions = Append(@, Prediction(entry,
                                                  ScoreOf(entry, frame.past_results))),
                        !.i = @ + 1]
    /\ UNCHANGED <<races, horses, horse_name, results, ret, sessions, wpc, wframe>>

\* After the loop: sort, number, return (to the handler predict_race).
PredictReturn ==
    /\ pc = "predict_loop"
    /\ frame.i > Len(frame.entries)
    /\ pc' = "idle"
    /\ frame' = NoFrame
    /\ LET res == Ok(WithRanks(SortByScore(frame.predictions)))
       IN  ret' = [op |-> "predict_race_result", race_id |-> frame.race_id,
                   res |-> res, response |-> predict_race(frame.race_id, res)]
    /\ sessions' = [sessions EXCEPT !.engine = CloseInFinally(@, ret'.res)]
    /\ UNCHANGED <<races, horses, horse_name, results, wpc, wframe>>

(***************************************************************************)
(* Strategy backtester: analyze_return_rate and the handler get_return_rate *)
(***************************************************************************)

Stake == 100

Strategies == {"favorite", "longshot", "value"}

\* session.query(Race).filter(Race.race_date >= cutoff_date).all()
RECURSIVE RacesSince(_, _)
RacesSince(order, cutoff_date) ==
    IF order = << >> THEN << >>
    ELSE LET rest == RacesSince(Tail(order), cutoff_date)
         IN  IF /\ HasRace(Head(order))
                /\ RaceOf(Head(order)).race_date # Absent
                /\ RaceOf(Head(order)).race_date >= cutoff_date
             THEN <<RaceOf(Head(order))>> \o rest
             ELSE rest

\* session.query(RaceResult).filter_by(race_id=race.race_id).all()
ResultsOfRace(race_id) == SelectSeq(results, LAMBDA r : r.race_id = race_id)

\* x.odds or 0
OddsOrZero(x) == IF Truthy(x.odds) THEN x.odds ELSE 0

\* Mutant of ValueKey: the odds alone, popularity playing no part.
ValueKeyOddsOnly(x) == Frac(OddsOrZero(x), 1)

\* (x.odds or 0) / x.popularity if x.popularity else 0
ValueKey(x) ==
    IF Truthy(x.popularity) THEN Frac(OddsOrZero(x), x.popularity) ELSE Frac(0, 1)

\* Mutant of FirstMax: the last element no other element's key exceeds.
LastMax(s, key) ==
    s[CHOOSE i \in 1..Len(s) :
        /\ \A j \in 1..Len(s) : ~RatLess(key[s[i]], key[s[j]])
        /\ \A j \in (i + 1)..Len(s) : RatLess(key[s[j]], key[s[i]])]

\* max(s, key=...): the first element no other element's key exceeds; key is
\* the key function over the elements of s.
FirstMax(s, key) ==
    s[CHOOSE i \in 1..Len(s) :
        /\ \A j \in 1..Len(s) : ~RatLess(key[s[i]], key[s[j]])
        /\ \A j \in 1..(i - 1) : RatLess(key[s[j]], key[s[i]])]

\* Mutant of SelectedHorse: under 'favorite' the last entry with popularity 1.
SelectedHorseLastFavorite(strategy, rs) ==
    IF strategy = "favorite"
    THEN LET favorites == SelectSeq(rs, LAMBDA r : r.popularity = 1)
         IN  IF favorites # << >> THEN <<favorites[Len(favorites)]>> ELSE << >>
    ELSE IF strategy = "longshot"
    THEN LET longshots == SelectSeq(rs, LAMBDA r :
                                Truthy(r.popularity) /\ r.popularity >= 10)
         IN  IF longshots # << >>
             THEN <<FirstMax(longshots,
                             [x \in Range(longshots) |-> Frac(OddsOrZero(x), 1)])>>
             ELSE << >>
    ELSE IF strategy = "value"
    THEN LET values == SelectSeq(rs, LAMBDA r :
                            /\ Truthy(r.popularity)
                            /\ 3 <= r.popularity /\ r.popularity <= 8)
         IN  IF values # << >>
             THEN <<FirstMax(values,
                             [x \in Range(values) |-> ValueKey(x)])>>
             ELSE << >>
    ELSE << >>

\* selected_horse: << >> for None, <<row>> for a selected entry.
SelectedHorse(strategy, rs) ==
    IF strategy = "favorite"
    THEN LET favorites == SelectSeq(rs, LAMBDA r : r.popularity = 1)
         IN  IF favorites # << >> THEN <<favorites[1]>> ELSE << >>
    ELSE IF strategy = "longshot"
    THEN LET longshots == SelectSeq(rs, LAMBDA r :
                                Truthy(r.popularity) /\ r.popularity >= 10)
         IN  IF longshots # << >>
             THEN <<FirstMax(longshots,
                             [x \in Range(longshots) |-> Frac(OddsOrZero(x), 1)])>>
             ELSE << >>
    ELSE IF strategy = "value"
    THEN LET values == SelectSeq(rs, LAMBDA r :
                            /\ Truthy(r.popularity)
                            /\ 3 <= r.popularity /\ r.popularity <= 8)
         IN  IF values # << >>
             THEN <<FirstMax(values,
                             [x \in Range(values) |-> ValueKey(x)])>>
             ELSE << >>
    ELSE << >>

\* Mutant of StakeOf: the stake is spent on every race that has results,
\* a bet target selected or not.
StakeOfEveryRace(selected) == Stake

\* What one race adds to total_investment, total_return and wins.
StakeOf(selected) == IF selected # << >> THEN Stake ELSE 0

PayoutOf(selected) ==
    IF selected # << >> /\ selected[1].ranking = 1
    THEN Stake * OddsOrZero(selected[1])
    ELSE 0

\* Variant counting every bet placed as a win.
WinOfEveryBet(selected) == IF selected # << >> THEN 1 ELSE 0

WinOf(selected) == IF selected # << >> /\ selected[1].ranking = 1 THEN 1 ELSE 0

\* a / b * 100 in Python: ZeroDivisionError when b = 0
DivError == <<"ZeroDivisionError">>

PyPercent(a, b) == IF b = 0 THEN DivError ELSE Frac(a * 100, b)

\* Mutant of ReturnRateOf: the division without its guard.
ReturnRateUnguarded(total_return, total_investment) ==
    PyPercent(total_return, total_investment)

\* (total_return / total_investment * 100) if total_investment > 0 else 0
ReturnRateOf(total_return, total_investment) ==
    IF total_investment > 0 THEN PyPercent(total_return, total_investment)
    ELSE Frac(0, 1)

\* (wins / len(races) * 100) if races else 0
WinRateOf(wins, n_races) ==
    IF n_races # 0 THEN PyPercent(wins, n_races) ELSE Frac(0, 1)

\* The return statement of analyze_return_rate.
ReturnRateRecord(f) ==
    LET return_rate == ReturnRateOf(f.total_return, f.total_investment)
        win_rate == WinRateOf(f.wins, Len(f.races))
    IN  IF return_rate = DivError \/ win_rate = DivError
        THEN Raise("ZeroDivisionError")
        ELSE Ok([strategy |-> f.strategy,
                 total_races |-> Len(f.races),
                 total_investment |-> f.total_investment,
                 total_return |-> f.total_return,
                 return_rate |-> return_rate,
                 win_rate |-> win_rate,
                 profit |-> f.total_return - f.total_investment])

\* analyze_return_rate up to the start of its loop over the races.
ReturnRateStart(strategy, days) ==
    /\ pc = "idle"
    /\ pc' = "return_loop"
    /\ frame' = [op |-> "analyze_return_rate", strategy |-> strategy,
                 days |-> days, races |-> RacesSince(RaceOrder, Today - days),
                 i |-> 1, selected_horse |-> << >>, total_investment |-> 0,
                 total_return |-> 0, wins |-> 0]
    /\ ret' = NoRet
    /\ sessions' = [sessions EXCEPT !.engine = GetSession(@)]
    /\ UNCHANGED <<races, horses, horse_name, results, wpc, wframe>>

\* One turn of the loop: the race's results, the bet target, the totals.  A
\* race without results is left by `continue` before selected_horse is
\* assigned, so the variable keeps what the turn before gave it.
ReturnRateRace ==
    /\ pc = "return_loop"
    /\ frame.i <= Len(frame.races)
    /\ LET rs == ResultsOfRace(frame.races[frame.i].race_id)
           selected_horse == IF rs = << >> THEN << >>
                             ELSE SelectedHorse(frame.strategy, rs)
       IN  frame' = [frame EXCEPT
                        !.selected_horse = IF rs = << >> THEN @ ELSE selected_horse,
                        !.total_investment = @ + StakeOf(selected_horse),
                        !.total_return = @ + PayoutOf(selected_horse),
                        !.wins = @ + WinOf(selected_horse),
                        !.i = @ + 1]
    /\ UNCHANGED <<races, horses, horse_name, results, pc, ret,
                   sessions, wpc, wframe>>

\* After the loop: the returned record.
ReturnRateReturn ==
    /\ pc = "return_loop"
    /\ frame.i > Len(frame.races)
    /\ pc' = "idle"
    /\ frame' = NoFrame
    /\ ret' = [op |-> "analyze_return_rate", strategy |-> frame.strategy,
               days |-> frame.days, res |-> ReturnRateRecord(frame)]
    /\ sessions' = [sessions EXCEPT !.engine = CloseInFinally(@, ret'.res)]
    /\ UNCHANGED <<races, horses, horse_name, results, wpc, wframe>>

\* The handler get_return_rate: an unknown strategy is answered 400 and the
\* engine is not called.
GetReturnRateRejects(strategy, days) ==
    /\ pc = "idle"
    /\ strategy \notin Strategies
    /\ ret' = [op |-> "get_return_rate", strategy |-> strategy, days |-> days,
               response |-> [status |-> 400, error |-> "Invalid strategy"]]
    /\ UNCHANGED <<races, horses, horse_name, results, pc, frame,
                   sessions, wpc, wframe>>

(***************************************************************************)
(* Hot-horse ranker: get_hot_horses and the handler get_hot_horses.  The   *)
(* field horse_name, copied from the Horse row, is left out of the         *)
(* returned records.                                                       *)
(***************************************************************************)

HotWindowDays == 30

MeanRankSentinel == 999

\* s[:limit] of Python: the first limit elements, all but the last -limit
\* when limit is negative.
PySliceTo(s, limit) ==
    LET n == IF limit >= 0
             THEN (IF limit < Len(s) THEN limit ELSE Len(s))
             ELSE (IF Len(s) + limit > 0 THEN Len(s) + limit ELSE 0)
    IN  SubSeq(s, 1, n)

\* session.query(RaceResult, Horse, Race).join(Horse).join(Race)
\*     .filter(Race.race_date >= cutoff_date).all()
HotResults ==
    SelectSeq(results, LAMBDA r :
        /\ HasHorse(r.horse_id)
        /\ HasRace(r.race_id)
        /\ RaceOf(r.race_id).race_date # Absent
        /\ RaceOf(r.race_id).race_date >= Today - HotWindowDays)

\* The keys of horse_stats in the order the dict yields them: the order in
\* which the loop over rs first met each horse.
RECURSIVE HorseKeys(_)
HorseKeys(rs) ==
    IF rs = << >> THEN << >>
    ELSE LET before == HorseKeys(SubSeq(rs, 1, Len(rs) - 1))
             h == rs[Len(rs)].horse_id
         IN  IF h \in Range(before) THEN before ELSE Append(before, h)

\* horse_stats[h] after the loop over rs.
HorseStatsOf(rs, h) ==
    LET mine == SelectSeq(rs, LAMBDA r : r.horse_id = h)
        ranked == SelectSeq(mine, LAMBDA r : Truthy(r.ranking))
    IN  [horse_id |-> h,
         races |-> Len(mine),
         wins |-> Count(ranked, [r \in Range(ranked) |-> r.ranking = 1]),
         top3 |-> Count(ranked, [r \in Range(ranked) |-> r.ranking <= 3]),
         recent_rankings |-> Map(ranked, [r \in Range(ranked) |-> r.ranking])]

\* Mutant of Eligible: one race is enough.
EligibleWithOneRace(stats) == stats.races >= 1

\* if stats['races'] >= 2
Eligible(stats) == stats.races >= 2

\* Mutant of HotAvgRanking: 0 when the horse has no present rank.
HotAvgRankingZeroDefault(stats) ==
    IF stats.recent_rankings # << >> THEN MeanOrNone(stats.recent_rankings)
    ELSE Frac(0, 1)

\* np.mean(stats['recent_rankings']) if stats['recent_rankings'] else 999
HotAvgRanking(stats) ==
    IF stats.recent_rankings # << >> THEN MeanOrNone(stats.recent_rankings)
    ELSE Frac(MeanRankSentinel, 1)

\* The record appended to hot_horses for an eligible horse.
HotHorse(stats) ==
    LET win_rate == Frac(stats.wins * 100, stats.races)
        top3_rate == Frac(stats.top3 * 100, stats.races)
        avg_ranking == HotAvgRanking(stats)
        score == RatAdd(RatAdd(RatScale(win_rate, 3), RatScale(top3_rate, 2)),
                        RatScale(RatSub(Frac(20, 1), avg_ranking), 5))
    IN  [horse_id |-> stats.horse_id, races |-> stats.races, wins |-> stats.wins,
         win_rate |-> win_rate, top3_rate |-> top3_rate,
         avg_ranking |-> avg_ranking, score |-> score]

get_hot_horses(limit) ==
    LET rs == HotResults
        keys == HorseKeys(rs)
        horse_stats == [k \in 1..Len(keys) |-> HorseStatsOf(rs, keys[k])]
        eligible == SelectSeq(horse_stats, Eligible)
        hot_horses == [k \in 1..Len(eligible) |-> HotHorse(eligible[k])]
    IN  Ok(PySliceTo(SortByScore(hot_horses), limit))

\* The handler get_hot_horses of the API with the query parameter limit, and
\* the engine call it makes.
GetHotHorses(limit) ==
    /\ pc = "idle"
    /\ \E res \in {get_hot_horses(limit)} :
          ret' = [op |-> "get_hot_horses", limit |-> limit, res |-> res,
                  response |-> [status |-> 200, count |-> Len(res.value),
                                horses |-> res.value]]
    /\ sessions' = [sessions EXCEPT
                       !.engine = CloseInFinally(GetSession(@), ret'.res)]
    /\ UNCHANGED <<races, horses, horse_name, results, pc, frame, wpc, wframe>>

(***************************************************************************)
(* The collaborator's writes: specification.  From the empty database, the *)
(* ingestion saves races, horses and the results of a race.                *)
(***************************************************************************)

WriteRaceData ==
    {[race_id |-> "r1", race_date |-> Today - 10, distance |-> 1600,
      track_condition |-> "ryo"],
     [race_id |-> "r1"],
     [race_date |-> Today - 10]}

WriteHorseData ==
    {[horse_id |-> "h1", horse_name |-> "Alpha"],
     [horse_id |-> "h1"],
     [horse_name |-> "Alpha"]}

WriteRowData ==
    {[horse_id |-> "h1", ranking |-> 1, jockey |-> "j1", odds |-> 3,
      popularity |-> 1],
     [horse_id |-> "h2"]}

Next ==
    \/ \E d \in WriteRaceData : SaveRaceBegin(d)
    \/ SaveRaceCommit
    \/ SaveRaceFails
    \/ \E d \in WriteHorseData : SaveHorseBegin(d)
    \/ SaveHorseCommit
    \/ SaveHorseFails
    \/ \E rid \in {"r1", "r2"}, rows \in SeqsUpTo(WriteRowData, MaxRows) :
          SaveRaceResultsBegin(rid, rows)
    \/ SaveRaceResultsDelete
    \/ SaveRaceResultsAdd
    \/ SaveRaceResultsCommit
    \/ SaveRaceResultsFails
    \/ \E rid \in {"r1", "r2"} : GetRaceResults(rid)

Spec == Init /\ [][Next]_vars

(***************************************************************************)
(* Statistics module: specification.  The engine's statistics operations   *)
(* applied to every stored data set of four families: races that vary in   *)
(* date, in track condition, in distance; results that vary in jockey and  *)
(* odds.                                                                   *)
(***************************************************************************)

\* Results of horse h1, the horse the operations are called for, with every
\* kind of rank, and wins of another horse in the same races.
StatsRows ==
    [race_id : {"r1", "r2"}, horse_id : {"h1"}, ranking : {Absent, 1, 3, 4},
     jockey : {"j1"}, odds : {Absent}, popularity : {Absent}]
    \cup
    [race_id : {"r1", "r2"}, horse_id : {"h2"}, ranking : {1},
     jockey : {"j1"}, odds : {Absent}, popularity : {Absent}]

DistanceRows ==
    [race_id : {"r1", "r2"}, horse_id : {"h1"}, ranking : {Absent, 1},
     jockey : {"j1"}, odds : {Absent}, popularity : {Absent}]
    \cup
    [race_id : {"r1", "r2"}, horse_id : {"h2"}, ranking : {1},
     jockey : {"j1"}, odds : {Absent}, popularity : {Absent}]

DateRaces ==
    RaceTables({"r1", "r2"},
               [race_date : {Absent, Today - 100, Today - 10},
                distance : {1600}, track_condition : {"ryo"}])

ConditionRaces ==
    RaceTables({"r1", "r2"},
               [race_date : {Today - 10}, distance : {1600},
                track_condition : {NoneStr, "", "ryo"}])

DistanceRaces ==
    RaceTables({"r1", "r2"},
               [race_date : {Today - 10},
                distance : {Absent, 1400, 1401, 1800, 1801, 2200, 2201,
                            9999, 10000},
                track_condition : {"ryo"}])

\* Jockey j1 riding in a race of the 30-day window and in one before it, with
\* results that vary in rank and odds, and another jockey's win in the window.
JockeyResultRows ==
    [race_id : {"r1", "r2"}, horse_id : {"h1"}, ranking : {Absent, 1, 4},
     jockey : {"j1"}, odds : {Absent, 3, 5}, popularity : {Absent}]
    \cup
    [race_id : {"r1"}, horse_id : {"h1"}, ranking : {1},
     jockey : {"j2"}, odds : {3}, popularity : {Absent}]

JockeyRaces ==
    {[race_id |-> k[1], race_date |-> Today - k[2], distance |-> 1600,
      track_condition |-> "ryo"] :
        k \in {<<"r1", 10>>, <<"r2", 100>>}}

StatsJockeys == {"j1"}

StatsDays == {30, 365}

StatsHorses == {"h1"}

InitStats ==
    /\ \/ /\ races \in DateRaces \cup ConditionRaces
          /\ results \in ResultTables(StatsRows, MaxRowsStats)
       \/ /\ races \in DistanceRaces
          /\ results \in ResultTables(DistanceRows, MaxRowsStats)
       \/ /\ races = JockeyRaces
          /\ results \in ResultTables(JockeyResultRows, MaxRowsJockey)
    /\ horses = HorseIds
    /\ horse_name = [h \in horses |-> NoneStr]
    /\ pc = "idle"
    /\ frame = NoFrame
    /\ ret = NoRet
    /\ sessions = NoSessions
    /\ wpc = "idle"
    /\ wframe = NoFrame

NextStats ==
    \/ \E h \in StatsHorses, days \in StatsDays : CalculateWinRate(h, days)
    \/ \E h \in StatsHorses : AnalyzeTrackCondition(h)
    \/ \E h \in StatsHorses : AnalyzeDistancePerformance(h)
    \/ \E j \in StatsJockeys, days \in StatsDays : AnalyzeJockeyPerformance(j, days)

SpecStats == InitStats /\ [][NextStats]_vars

\* sum of the function f over the finite set S
RECURSIVE SumOver(_, _)
SumOver(S, f) ==
    IF S = {} THEN 0
    ELSE LET x == CHOOSE y \in S : TRUE IN f[x] + SumOver(S \ {x}, f)

\* The rows of race_results (as indexes) stored for a horse.
RowsOfHorse(h) == {i \in 1..Len(results) : results[i].horse_id = h}

\* C1: calculate_win_rate returns without failing, for every set of matching
\* results (rows of the horse whose race is dated in the window), a record with
\* total_races = the number of matching rows, wins = those with rank 1,
\* win_rate = wins / total_races * 100 and top3_rate = (rows with a present
\* rank <= 3) / total_races * 100; a row with an absent rank counts in
\* total_races only.
C1_WinRateRecordForEveryResultSet ==
    ret.op = "calculate_win_rate" =>
        LET M == {i \in RowsOfHorse(ret.horse_id) :
                    \E x \in races : /\ x.race_id = results[i].race_id
                                     /\ x.race_date # Absent
                                     /\ x.race_date >= Today - ret.days}
            total == Cardinality(M)
            wins == Cardinality({i \in M : results[i].ranking = 1})
            top3 == Cardinality({i \in M : /\ results[i].ranking # Absent
                                           /\ results[i].ranking <= 3})
        IN  /\ ret.res.kind = "ok"
            /\ ret.res.value.total_races = total
            /\ ret.res.value.wins = wins
            /\ RatEq(ret.res.value.win_rate,
                     IF total = 0 THEN Frac(0, 1) ELSE Frac(wins * 100, total))
            /\ RatEq(ret.res.value.top3_rate,
                     IF total = 0 THEN Frac(0, 1) ELSE Frac(top3 * 100, total))

\* C3: the race counts of the four bands of analyze_distance_performance sum
\* to the number of the horse's results whose race has a present distance.
C3_BandCountsSumToPresentDistances ==
    ret.op = "analyze_distance_performance" =>
        LET present == {i \in RowsOfHorse(ret.horse_id) :
                          \E x \in races : /\ x.race_id = results[i].race_id
                                           /\ x.distance # Absent}
        IN  /\ ret.res.kind = "ok"
            /\ SumOver(BandNames, [b \in BandNames |-> ret.res.value[b].races])
                 = Cardinality(present)

\* C4: the race counts of the groups of analyze_track_condition sum to the
\* number of RaceResult rows stored for the horse, rows whose race_id has no
\* Race row included.
C4_ConditionCountsSumToAllRows ==
    ret.op = "analyze_track_condition" =>
        /\ ret.res.kind = "ok"
        /\ SumOver(DOMAIN ret.res.value,
                   [c \in DOMAIN ret.res.value |-> ret.res.value[c].races])
             = Cardinality(RowsOfHorse(ret.horse_id))

(***************************************************************************)
(* Scoring module: specification.  predict_race_result applied to every    *)
(* stored data set of three families: entries of race r1 with and without  *)
(* popularity, horse h1 having run in race r2 with every kind of rank; one *)
(* race with many entries, of horses with and without a Horse row; one     *)
(* horse with a long history over races whose dates run against the        *)
(* insertion order.                                                        *)
(***************************************************************************)

ScoreRows ==
    [race_id : {"r1"}, horse_id : {"h1", "h2"}, ranking : {1},
     jockey : {"j1"}, odds : {Absent}, popularity : {Absent, 2}]
    \cup
    [race_id : {"r2"}, horse_id : {"h1"}, ranking : {Absent, 1, 4},
     jockey : {"j1"}, odds : {Absent}, popularity : {Absent}]

EntryRows ==
    [race_id : {"r1"}, horse_id : {"h1", "h2"}, ranking : {1},
     jockey : {"j1"}, odds : {Absent}, popularity : {Absent, 1, 2}]

RecentRows ==
    {[race_id |-> k[1], horse_id |-> "h1", ranking |-> k[2], jockey |-> "j1",
      odds |-> Absent, popularity |-> Absent] :
        k \in {<<"r1", 2>>, <<"r2", 1>>, <<"r3", 4>>}}

DatedRaces ==
    {[race_id |-> k[1], race_date |-> Today - k[2], distance |-> 1600,
      track_condition |-> "ryo"] :
        k \in {<<"r1", 10>>, <<"r2", 20>>, <<"r3", 30>>}}

PredictRaces == {"r1", "r2"}

InitPredict ==
    /\ \/ /\ results \in ResultTables(ScoreRows, MaxRowsScore)
          /\ horses = HorseIds
       \/ /\ results \in ResultTables(EntryRows, MaxEntries)
          /\ horses \in SUBSET HorseIds
       \/ /\ results \in ResultTables(RecentRows, MaxRowsRecent)
          /\ horses = HorseIds
    /\ races = DatedRaces
    /\ horse_name = [h \in horses |-> NoneStr]
    /\ pc = "idle"
    /\ frame = NoFrame
    /\ ret = NoRet
    /\ sessions = NoSessions
    /\ wpc = "idle"
    /\ wframe = NoFrame

NextPredict ==
    \/ \E rid \in PredictRaces : PredictStart(rid)
    \/ PredictQueryPast
    \/ PredictScore
    \/ PredictReturn

SpecPredict == InitPredict /\ [][NextPredict]_vars

\* The RaceResult rows (as indexes) stored for a race.
RowsOfRace(rid) == {i \in 1..Len(results) : results[i].race_id = rid}

\* C5: predict_race_result returns exactly one prediction for every RaceResult
\* entry stored for the race, also when the entry's horse has no Horse row, and
\* the empty sequence without raising when the race has no entries, which the
\* API layer answers with 404.
C5_OnePredictionPerStoredEntry ==
    ret.op = "predict_race_result" =>
        /\ ret.res.kind = "ok"
        /\ Len(ret.res.value) = Cardinality(RowsOfRace(ret.race_id))
        /\ ret.res.value = << >> => ret.response.status = 404

\* The bijections of 1..n
Perms(n) == {p \in [1..n -> 1..n] : \A i, j \in 1..n : p[i] = p[j] => i = j}

\* C6: the sequence predict_race_result returns is ordered by non-increasing
\* score, entries of equal score keep the order in which the entries query
\* returned them, and predicted_rank of the i-th returned entry is i.
C6_SortedStableRanked ==
    (ret.op = "predict_race_result" /\ ret.res.kind = "ok") =>
        LET out == ret.res.value
            n == Len(out)
            E == SelectSeq(results, LAMBDA r : /\ r.race_id = ret.race_id
                                               /\ r.horse_id \in horses)
        IN  /\ \A i \in 1..n : out[i].predicted_rank = i
            /\ \A i, j \in 1..n : i < j => ~RatLess(out[i].score, out[j].score)
            /\ Len(E) = n
            /\ \E p \in Perms(n) :
                  /\ \A i \in 1..n : /\ out[i].horse_id = E[p[i]].horse_id
                                     /\ out[i].popularity = E[p[i]].popularity
                  /\ \A i, j \in 1..n :
                        (i < j /\ RatEq(out[i].score, out[j].score)) => p[i] < p[j]

\* Reached: three predictions, the first scoring more than the other two,
\* which tie and are of different horses.
C6_Witness ==
    /\ ret.op = "predict_race_result"
    /\ ret.res.kind = "ok"
    /\ Len(ret.res.value) >= 3
    /\ RatLess(ret.res.value[2].score, ret.res.value[1].score)
    /\ RatEq(ret.res.value[2].score, ret.res.value[3].score)
    /\ ret.res.value[2].horse_id # ret.res.value[3].horse_id

\* The recent results of horse h for target race rid (as indexes): the rows of
\* h in other races that have fewer than 5 such rows of larger id.
RecentOf(h, rid) ==
    LET R == {i \in 1..Len(results) : /\ results[i].horse_id = h
                                      /\ results[i].race_id # rid}
    IN  {i \in R : Cardinality({j \in R : results[j].id > results[i].id}) < 5}

\* The score the formula of C7 gives horse h with popularity pop in race rid.
ExpectedScore(h, pop, rid) ==
    LET recent == RecentOf(h, rid)
        ranked == {i \in recent : results[i].ranking # Absent}
        ranksum == SumOver(ranked, [i \in ranked |-> results[i].ranking])
        wins == Cardinality({i \in recent : results[i].ranking = 1})
        c1 == IF ranked # {}
              THEN Frac((20 * Cardinality(ranked) - ranksum) * 5, Cardinality(ranked))
              ELSE Frac(0, 1)
        c2 == IF recent # {}
              THEN Frac(wins * 100 * 2, Cardinality(recent))
              ELSE Frac(0, 1)
        c3 == IF pop # Absent THEN Frac((20 - pop) * 3, 1) ELSE Frac(0, 1)
    IN  RatAdd(RatAdd(c1, c2), c3)

\* C7: each returned entry's score is the sum of its present components:
\* (20 - mean of the present ranks among the recent results) * 5 if a recent
\* result has a present rank, (wins / number of recent results) * 100 * 2 if
\* there are recent results, (20 - popularity) * 3 if popularity is present;
\* with no recent results and no popularity the score is 0.
C7_ScoreIsSumOfPresentComponents ==
    (ret.op = "predict_race_result" /\ ret.res.kind = "ok") =>
        \A k \in 1..Len(ret.res.value) :
            LET p == ret.res.value[k]
            IN  /\ RatEq(p.score, ExpectedScore(p.horse_id, p.popularity, ret.race_id))
                /\ (RecentOf(p.horse_id, ret.race_id) = {} /\ p.popularity = Absent)
                      => p.score[1] = 0

\* Reached: a returned entry with popularity whose recent results hold a win,
\* a present rank that is no win and an absent rank; and one returned entry
\* with neither recent results nor popularity.
C7_Witness ==
    /\ ret.op = "predict_race_result"
    /\ ret.res.kind = "ok"
    /\ \E k \in 1..Len(ret.res.value) :
          LET p == ret.res.value[k]
              recent == RecentOf(p.horse_id, ret.race_id)
          IN  /\ p.popularity # Absent
              /\ \E i \in recent : results[i].ranking = 1
              /\ \E i \in recent : results[i].ranking = Absent
    /\ \E k \in 1..Len(ret.res.value) :
          /\ ret.res.value[k].popularity = Absent
          /\ RecentOf(ret.res.value[k].horse_id, ret.race_id) = {}

\* C8: the recent results predict_race_result uses for a horse are exactly the
\* (up to) 5 rows of that horse with the largest ids among the rows of other
\* races; no row of the target race is among them, and race dates play no part.
C8_RecentAreLastFiveByIdOfOtherRaces ==
    pc = "predict_score" =>
        LET past == frame.past_results
            top == RecentOf(frame.entries[frame.i].horse_id, frame.race_id)
        IN  /\ Len(past) = Cardinality(top)
            /\ {past[k] : k \in 1..Len(past)} = {results[i] : i \in top}
            /\ \A k \in 1..Len(past) : past[k].race_id # frame.race_id

\* Reached: the horse has more than 5 rows in other races, the query returned
\* 5, it left out a row of an other race that is dated later than a row it
\* returned, and a row of the target race has a larger id than a returned row.
C8_Witness ==
    /\ pc = "predict_score"
    /\ Len(frame.past_results) = 5
    /\ \E i \in 1..Len(results) :
          /\ results[i].horse_id = frame.entries[frame.i].horse_id
          /\ results[i].race_id # frame.race_id
          /\ \A k \in 1..5 : frame.past_results[k] # results[i]
          /\ \E k \in 1..5 :
                RaceOf(frame.past_results[k].race_id).race_date
                    < RaceOf(results[i].race_id).race_date
    /\ \E i \in RowsOfRace(frame.race_id), k \in 1..5 :
          results[i].id > frame.past_results[k].id

(***************************************************************************)
(* Strategy backtester: specification.  analyze_return_rate applied, for   *)
(* the three strategies and an unknown one, to every stored data set of    *)
(* two families: two races in and out of the 30-day window with results    *)
(* that vary in rank, popularity and odds; one race in the window whose    *)
(* entries take every kind of popularity and odds.                         *)
(***************************************************************************)

ReturnRows ==
    [race_id : {"r1", "r2"}, horse_id : {"h1"}, ranking : {1, 2},
     jockey : {"j1"}, odds : {Absent, 3}, popularity : {1, 3, 10}]

ReturnRaces ==
    RaceTables({"r1", "r2"},
               [race_date : {Today - 100, Today - 10}, distance : {1600},
                track_condition : {"ryo"}])

\* One race in the window whose entries vary in popularity and odds.
SelectRows ==
    [race_id : {"r1"}, horse_id : {"h1"}, ranking : {1},
     jockey : {"j1"}, odds : {Absent, 3, 6},
     popularity : {Absent, 1, 2, 3, 8, 9, 10}]

SelectRaces ==
    {[race_id |-> "r1", race_date |-> Today - 10, distance |-> 1600,
      track_condition |-> "ryo"]}

ReturnStrategies == Strategies \cup {"unknown"}

ReturnDays == {30}

InitReturn ==
    /\ \/ /\ races \in ReturnRaces
          /\ results \in ResultTables(ReturnRows, MaxRowsReturn)
       \/ /\ races = SelectRaces
          /\ results \in ResultTables(SelectRows, MaxRowsSelect)
    /\ horses = HorseIds
    /\ horse_name = [h \in horses |-> NoneStr]
    /\ pc = "idle"
    /\ frame = NoFrame
    /\ ret = NoRet
    /\ sessions = NoSessions
    /\ wpc = "idle"
    /\ wframe = NoFrame

NextReturn ==
    \/ \E st \in ReturnStrategies, days \in ReturnDays : ReturnRateStart(st, days)
    \/ ReturnRateRace
    \/ ReturnRateReturn
    \/ \E st \in ReturnStrategies, days \in ReturnDays : GetReturnRateRejects(st, days)

SpecReturn == InitReturn /\ [][NextReturn]_vars

\* C2: analyze_return_rate called with a strategy name other than 'favorite',
\* 'longshot' or 'value' raises; it never returns a normal result record.
C2_UnknownStrategyRaises ==
    (ret.op = "analyze_return_rate"
        /\ ret.strategy \notin {"favorite", "longshot", "value"})
    => ret.res.kind = "raise"

\* The races dated in the window of the call that returned.
WindowRaces == {x \in races : x.race_date # Absent /\ x.race_date >= Today - ret.days}

\* Whether result row r qualifies as a bet target under the strategy.
Qualifies(strategy, r) ==
    \/ strategy = "favorite" /\ r.popularity = 1
    \/ strategy = "longshot" /\ r.popularity # Absent /\ r.popularity >= 10
    \/ strategy = "value" /\ r.popularity # Absent
          /\ 3 <= r.popularity /\ r.popularity <= 8

\* The races of the window for which a bet target was selected.
BetRaces ==
    {x \in WindowRaces :
        SelectedHorse(ret.strategy, ResultsOfRace(x.race_id)) # << >>}

\* C9: total_investment = 100 * (number of races of the window for which a bet
\* target was selected), total_return = the sum over the selected targets with
\* rank 1 of 100 * odds (absent odds as 0), losing bets add 0, races without
\* results or without a qualifying entry cost no stake, and profit =
\* total_return - total_investment.
C9_InvestmentReturnProfit ==
    (ret.op = "analyze_return_rate" /\ ret.res.kind = "ok") =>
        LET v == ret.res.value
            won == {x \in BetRaces :
                      SelectedHorse(ret.strategy, ResultsOfRace(x.race_id))[1].ranking = 1}
            paid == [x \in won |->
                      LET t == SelectedHorse(ret.strategy, ResultsOfRace(x.race_id))[1]
                      IN  100 * (IF t.odds = Absent THEN 0 ELSE t.odds)]
        IN  /\ v.total_investment = 100 * Cardinality(BetRaces)
            /\ v.total_return = SumOver(won, paid)
            /\ v.profit = v.total_return - v.total_investment
            /\ BetRaces = {x \in WindowRaces :
                             \E i \in RowsOfRace(x.race_id) :
                                 Qualifies(ret.strategy, results[i])}

\* Reached: two races in the window, both bet on, one bet won at odds 3 and
\* the other lost or won at absent odds.
C9_Witness ==
    /\ ret.op = "analyze_return_rate"
    /\ ret.res.kind = "ok"
    /\ Cardinality(WindowRaces) = 2
    /\ ret.res.value.total_investment = 200
    /\ ret.res.value.total_return = 300

\* C10: analyze_return_rate returns return_rate = 0 when total_investment is 0
\* and win_rate = 0 when the window holds no races, and no division fails.
C10_ZeroRatesWithoutDivisionFailure ==
    ret.op = "analyze_return_rate" =>
        /\ ret.res.kind = "raise" => ret.res.error # "ZeroDivisionError"
        /\ ret.res.kind = "ok" =>
              /\ ret.res.value.total_investment = 0
                    => ret.res.value.return_rate = Frac(0, 1)
              /\ WindowRaces = {} => ret.res.value.win_rate = Frac(0, 1)

\* Reached: a call with one of the three strategies over a window that holds
\* a race with results, none of them a qualifying entry.
C10_Witness ==
    /\ ret.op = "analyze_return_rate"
    /\ ret.strategy \in Strategies
    /\ ret.res.kind = "ok"
    /\ \E x \in WindowRaces : RowsOfRace(x.race_id) # {}
    /\ ret.res.value.total_investment = 0
    /\ ret.res.value.return_rate = Frac(0, 1)

\* A percentage: a fraction between 0 and 100.
InPercentRange(q) == q[2] > 0 /\ 0 <= q[1] /\ q[1] <= 100 * q[2]

\* C11: every numeric rate field a public engine operation returns (win_rate
\* and top3_rate of calculate_win_rate, analyze_jockey_performance,
\* analyze_track_condition, analyze_distance_performance and get_hot_horses,
\* win_rate and return_rate of analyze_return_rate) lies in [0, 100].
C11_RatesWithinPercentRange ==
    (/\ ret.op \in {"calculate_win_rate", "analyze_jockey_performance",
                    "analyze_track_condition", "analyze_distance_performance",
                    "get_hot_horses", "analyze_return_rate"}
     /\ ret.res.kind = "ok") =>
        LET v == ret.res.value
        IN  CASE ret.op = "calculate_win_rate" ->
                    InPercentRange(v.win_rate) /\ InPercentRange(v.top3_rate)
              [] ret.op = "analyze_jockey_performance" ->
                    InPercentRange(v.win_rate)
              [] ret.op \in {"analyze_track_condition",
                             "analyze_distance_performance"} ->
                    \A g \in DOMAIN v : InPercentRange(v[g].win_rate)
              [] ret.op = "get_hot_horses" ->
                    \A k \in 1..Len(v) : /\ InPercentRange(v[k].win_rate)
                                         /\ InPercentRange(v[k].top3_rate)
              [] ret.op = "analyze_return_rate" ->
                    InPercentRange(v.win_rate) /\ InPercentRange(v.return_rate)

\* The RaceResult rows (as indexes) of the race the loop of analyze_return_rate
\* has just been through, and the races it has been through.
JustBetRows == RowsOfRace(frame.races[frame.i - 1].race_id)

RacesDone == {frame.races[k].race_id : k \in 1..(frame.i - 1)}

\* The first (lowest index) row of the nonempty set S of row indexes.
FirstRow(S) == results[CHOOSE i \in S : \A j \in S : i <= j]

\* C12: under 'favorite', for each race with at least one result the bet target
\* is the first entry in query order whose popularity is 1, the race is skipped
\* when no entry has popularity 1, and one bet at most is placed per race: the
\* investment is one stake per race gone through that has such an entry.
C12_FavoriteIsFirstWithPopularityOne ==
    (pc = "return_loop" /\ frame.strategy = "favorite") =>
        /\ (frame.i > 1 /\ JustBetRows # {}) =>
              LET favs == {i \in JustBetRows : results[i].popularity = 1}
              IN  frame.selected_horse =
                     IF favs = {} THEN << >> ELSE <<FirstRow(favs)>>
        /\ frame.total_investment =
              100 * Cardinality({rid \in RacesDone :
                        \E i \in RowsOfRace(rid) : results[i].popularity = 1})

\* Reached: a race whose two entries both have popularity 1 and differ in
\* odds; the first of the two is the target and one stake is invested.
C12_Witness ==
    /\ pc = "return_loop"
    /\ frame.strategy = "favorite"
    /\ frame.i = 2
    /\ Cardinality(JustBetRows) = 2
    /\ results[1].popularity = 1
    /\ results[2].popularity = 1
    /\ results[1].odds = 3
    /\ results[2].odds = 6
    /\ frame.selected_horse = <<results[1]>>
    /\ frame.total_investment = 100

\* The odds of row i with absent odds taken as 0.
OddsOf(i) == IF results[i].odds = Absent THEN 0 ELSE results[i].odds

\* C13: under 'longshot', for each race the bet target is an entry with present
\* popularity >= 10 whose odds (absent odds as 0) are maximal among such
\* entries, the first such entry on ties; the race is skipped when no entry has
\* popularity >= 10; an entry with popularity below 10 or absent is never
\* selected.
C13_LongshotIsFirstMaxOdds ==
    (pc = "return_loop" /\ frame.strategy = "longshot"
        /\ frame.i > 1 /\ JustBetRows # {}) =>
        LET cand == {i \in JustBetRows : /\ results[i].popularity # Absent
                                         /\ results[i].popularity >= 10}
            best == {i \in cand : \A j \in cand : OddsOf(j) <= OddsOf(i)}
        IN  /\ frame.selected_horse =
                  IF cand = {} THEN << >> ELSE <<FirstRow(best)>>
            /\ frame.selected_horse # << >> =>
                  /\ frame.selected_horse[1].popularity # Absent
                  /\ frame.selected_horse[1].popularity >= 10

\* Reached: a race of two entries with popularity >= 10 and the same odds;
\* the first entry is the target.
C13_Witness ==
    /\ pc = "return_loop"
    /\ frame.strategy = "longshot"
    /\ frame.i = 2
    /\ Cardinality(JustBetRows) = 2
    /\ \A i \in 1..2 : results[i].popularity = 10
    /\ results[1].odds = 6
    /\ results[2].odds = 6
    /\ frame.selected_horse = <<results[1]>>

\* C14: under 'value', for each race the bet target is an entry with popularity
\* in [3, 8] that maximizes odds / popularity (absent odds as 0), the first
\* such entry on ties; the race is skipped when no entry has popularity in
\* [3, 8]; an entry with popularity 1, 2, 9 or more, or absent is never
\* selected.
C14_ValueIsFirstMaxOddsPerPopularity ==
    (pc = "return_loop" /\ frame.strategy = "value"
        /\ frame.i > 1 /\ JustBetRows # {}) =>
        LET cand == {i \in JustBetRows : /\ results[i].popularity # Absent
                                         /\ 3 <= results[i].popularity
                                         /\ results[i].popularity <= 8}
            best == {i \in cand : \A j \in cand :
                        OddsOf(j) * results[i].popularity
                            <= OddsOf(i) * results[j].popularity}
        IN  /\ frame.selected_horse =
                  IF cand = {} THEN << >> ELSE <<FirstRow(best)>>
            /\ frame.selected_horse # << >> =>
                  frame.selected_horse[1].popularity \in 3..8

\* Reached: a race whose first entry has popularity 8 and odds 6 and whose
\* second has popularity 3 and odds 3: the second, of smaller odds and larger
\* odds / popularity, is the target.
C14_Witness ==
    /\ pc = "return_loop"
    /\ frame.strategy = "value"
    /\ frame.i = 2
    /\ Cardinality(JustBetRows) = 2
    /\ results[1].popularity = 8 /\ results[1].odds = 6
    /\ results[2].popularity = 3 /\ results[2].odds = 3
    /\ frame.selected_horse = <<results[2]>>

(***************************************************************************)
(* Hot-horse ranker: specification.  get_hot_horses applied, for limits    *)
(* below, at and above the number of horses, to every stored data set of   *)
(* two families: one horse, with or without a Horse row, in races dated on *)
(* the first day of the window, one day before it, or without a Race row;  *)
(* two horses in one race of the window with every kind of rank.           *)
(***************************************************************************)

EligibleRows ==
    [race_id : {"r1", "r2", "r3"}, horse_id : {"h1"}, ranking : {1, 4},
     jockey : {"j1"}, odds : {Absent}, popularity : {Absent}]

EligibleRaces ==
    {[race_id |-> k[1], race_date |-> Today - k[2], distance |-> 1600,
      track_condition |-> "ryo"] :
        k \in {<<"r1", HotWindowDays>>, <<"r2", HotWindowDays + 1>>}}

HotRows ==
    [race_id : {"r1"}, horse_id : {"h1", "h2"}, ranking : {Absent, 1, 3, 4},
     jockey : {"j1"}, odds : {Absent}, popularity : {Absent}]

HotRaces ==
    {[race_id |-> "r1", race_date |-> Today - 10, distance |-> 1600,
      track_condition |-> "ryo"]}

HotLimits == {-1, 0, 1, 2, 10}

InitHot ==
    /\ \/ /\ races = EligibleRaces
          /\ results \in ResultTables(EligibleRows, MaxRowsEligible)
          /\ horses \in SUBSET HorseIds
       \/ /\ races = HotRaces
          /\ results \in ResultTables(HotRows, MaxRowsHot)
          /\ horses = HorseIds
    /\ horse_name = [h \in horses |-> NoneStr]
    /\ pc = "idle"
    /\ frame = NoFrame
    /\ ret = NoRet
    /\ sessions = NoSessions
    /\ wpc = "idle"
    /\ wframe = NoFrame

NextHot == \E limit \in HotLimits : GetHotHorses(limit)

SpecHot == InitHot /\ [][NextHot]_vars

\* The rows (as indexes) of horse h in races dated within the last 30 days.
RecentRowsOf(h) ==
    {i \in RowsOfHorse(h) :
        \E x \in races : /\ x.race_id = results[i].race_id
                         /\ x.race_date # Absent
                         /\ x.race_date >= Today - 30}

\* The horses get_hot_horses returned.
ReturnedHorses == {ret.res.value[k].horse_id : k \in 1..Len(ret.res.value)}

\* C15: get_hot_horses never returns a horse that has fewer than 2 results in
\* races dated within the last 30 days, a horse whose single result is a win
\* included, and every horse it returns has races >= 2.
C15_HotHorsesHaveTwoRecentResults ==
    ret.op = "get_hot_horses" =>
        /\ ret.res.kind = "ok"
        /\ \A h \in HorseIds :
              Cardinality(RecentRowsOf(h)) < 2 => h \notin ReturnedHorses
        /\ \A k \in 1..Len(ret.res.value) : ret.res.value[k].races >= 2

\* Reached: a call with room for every horse that returned one horse and left
\* out a horse that has a Horse row and whose single recent result is a win.
C15_Witness ==
    /\ ret.op = "get_hot_horses"
    /\ ret.limit >= 2
    /\ ReturnedHorses # {}
    /\ \E h \in horses :
          /\ Cardinality(RecentRowsOf(h)) = 1
          /\ \A i \in RecentRowsOf(h) : results[i].ranking = 1
          /\ h \notin ReturnedHorses

\* The row (as index) at which the query of get_hot_horses first meets horse h.
FirstMet(h) == CHOOSE i \in RecentRowsOf(h) : \A j \in RecentRowsOf(h) : i <= j

\* C16: get_hot_horses(limit) returns the eligible horses by non-increasing
\* score, horses of equal score in the order in which they were first met,
\* truncated to limit entries: for every integer limit, 0 and negative ones
\* included, the output has at most max(limit, 0) entries and is a prefix of
\* the full sorted list.
C16_SortedStableTruncatedToLimit ==
    ret.op = "get_hot_horses" =>
        LET out == ret.res.value
            n == Len(out)
            full == get_hot_horses(Cardinality(HorseIds)).value
        IN  /\ n <= (IF ret.limit > 0 THEN ret.limit ELSE 0)
            /\ n <= Len(full)
            /\ out = SubSeq(full, 1, n)
            /\ \A i, j \in 1..n : i < j =>
                  /\ ~RatLess(out[i].score, out[j].score)
                  /\ RatEq(out[i].score, out[j].score) =>
                        FirstMet(out[i].horse_id) < FirstMet(out[j].horse_id)

\* The present ranks (as row indexes) among the recent results of horse h.
RankedRowsOf(h) == {i \in RecentRowsOf(h) : results[i].ranking # Absent}

\* The score the formula of C17 gives horse h.
ExpectedHotScore(h) ==
    LET n == Cardinality(RecentRowsOf(h))
        ranked == RankedRowsOf(h)
        wins == Cardinality({i \in ranked : results[i].ranking = 1})
        top3 == Cardinality({i \in ranked : results[i].ranking <= 3})
        mean_rank == IF ranked # {}
                     THEN Frac(SumOver(ranked, [i \in ranked |-> results[i].ranking]),
                               Cardinality(ranked))
                     ELSE Frac(999, 1)
    IN  RatAdd(RatAdd(Frac(wins * 100 * 3, n), Frac(top3 * 100 * 2, n)),
               RatScale(RatSub(Frac(20, 1), mean_rank), 5))

\* C17: for every eligible horse get_hot_horses computes score = win_rate * 3
\* + top3_rate * 2 + (20 - mean_rank) * 5, win_rate and top3_rate being
\* percentages over all the horse's qualifying races and mean_rank the mean of
\* its present ranks, 999 when it has none: such a horse scores (20 - 999) * 5
\* and is in the output all the same.
C17_HotScoreFormula ==
    ret.op = "get_hot_horses" =>
        /\ \A k \in 1..Len(ret.res.value) :
              LET r == ret.res.value[k]
              IN  /\ RatEq(r.score, ExpectedHotScore(r.horse_id))
                  /\ RankedRowsOf(r.horse_id) = {} =>
                        RatEq(r.score, Frac((20 - 999) * 5, 1))
        /\ ret.limit >= Cardinality(HorseIds) =>
              \A h \in horses :
                  Cardinality(RecentRowsOf(h)) >= 2 => h \in ReturnedHorses

\* Reached: two horses returned, one without any present rank, scoring
\* (20 - 999) * 5, the other with a win and an absent rank.
C17_Witness ==
    /\ ret.op = "get_hot_horses"
    /\ Len(ret.res.value) = 2
    /\ \E k \in 1..2 :
          /\ RankedRowsOf(ret.res.value[k].horse_id) = {}
          /\ RatEq(ret.res.value[k].score, Frac(-4895, 1))
    /\ \E k \in 1..2 :
          LET h == ret.res.value[k].horse_id
          IN  /\ \E i \in RecentRowsOf(h) : results[i].ranking = 1
              /\ \E i \in RecentRowsOf(h) : results[i].ranking = Absent

\* C18: the 999 mean-rank sentinel stays inside the score computation: no
\* returned record carries avg_ranking = 999 when the horse has no present
\* rank; the undefined mean is output as null.
C18_SentinelNeverAnOutput ==
    ret.op = "get_hot_horses" =>
        \A k \in 1..Len(ret.res.value) :
            LET r == ret.res.value[k]
            IN  RankedRowsOf(r.horse_id) = {} =>
                    /\ r.avg_ranking # Frac(999, 1)
                    /\ r.avg_ranking = NoMean

\* The rows (as indexes) whose race is dated in the window of the call that
\* returned.
InWindow(i) ==
    \E x \in races : /\ x.race_id = results[i].race_id
                     /\ x.race_date # Absent
                     /\ x.race_date >= Today - ret.days

\* The rows matching the call that returned: of the horse, or of the jockey.
MatchingRows ==
    {i \in 1..Len(results) :
        /\ InWindow(i)
        /\ IF ret.op = "calculate_win_rate"
           THEN results[i].horse_id = ret.horse_id
           ELSE results[i].jockey = ret.jockey_name}

\* C19: when no result matches in the window, calculate_win_rate returns
\* total_races = 0, wins = 0, win_rate = 0.0 and top3_rate = 0.0 (not null),
\* analyze_jockey_performance returns total_races = 0, win_rate = 0.0 and
\* avg_ranking = avg_odds = null; neither raises.
C19_NoMatchZeroRatesNullMeans ==
    (ret.op \in {"calculate_win_rate", "analyze_jockey_performance"}
        /\ MatchingRows = {}) =>
        /\ ret.res.kind = "ok"
        /\ ret.res.value.total_races = 0
        /\ ret.res.value.win_rate # NoMean
        /\ RatEq(ret.res.value.win_rate, Frac(0, 1))
        /\ ret.op = "calculate_win_rate" =>
              /\ ret.res.value.wins = 0
              /\ ret.res.value.top3_rate # NoMean
              /\ RatEq(ret.res.value.top3_rate, Frac(0, 1))
        /\ ret.op = "analyze_jockey_performance" =>
              /\ ret.res.value.avg_ranking = NoMean
              /\ ret.res.value.avg_odds = NoMean

\* Reached: analyze_jockey_performance returned for a jockey whose only result
\* is in a race before the window, while another jockey has a result in the
\* window.
C19_Witness ==
    /\ ret.op = "analyze_jockey_performance"
    /\ MatchingRows = {}
    /\ \E i \in 1..Len(results) : results[i].jockey = ret.jockey_name
    /\ \E i \in 1..Len(results) : InWindow(i)
    /\ ret.res.kind = "ok"
    /\ ret.res.value.avg_ranking = NoMean

\* The mean of the function f over the rows S: null for no rows.
MeanOver(S, f) ==
    IF S = {} THEN NoMean ELSE Frac(SumOver(S, f), Cardinality(S))

\* Equality of two means, null or not.
MeanEq(a, b) == IF a = NoMean \/ b = NoMean THEN a = b ELSE RatEq(a, b)

\* The mean of the present ranks among the rows S.
MeanRankOver(S) ==
    LET P == {i \in S : results[i].ranking # Absent}
    IN  MeanOver(P, [i \in P |-> results[i].ranking])

\* The mean of the present odds among the rows S.
MeanOddsOver(S) ==
    LET P == {i \in S : results[i].odds # Absent}
    IN  MeanOver(P, [i \in P |-> results[i].odds])

\* The rows (as indexes) of the horse of the call that returned whose race has
\* a Race row, that row's track-condition label and its distance.
JoinedRows ==
    {i \in RowsOfHorse(ret.horse_id) : \E x \in races : x.race_id = results[i].race_id}

LabelOfRow(i) ==
    LET c == (CHOOSE x \in races : x.race_id = results[i].race_id).track_condition
    IN  IF c = NoneStr \/ c = "" THEN UnknownLabel ELSE c

DistanceOfRow(i) == (CHOOSE x \in races : x.race_id = results[i].race_id).distance

\* The four bands: name, exclusive lower bound, inclusive upper bound.
Bands ==
    {<<"sprint", 0, 1400>>, <<"mile", 1400, 1800>>,
     <<"intermediate", 1800, 2200>>, <<"long", 2200, 9999>>}

\* C20: in analyze_jockey_performance, analyze_track_condition and
\* analyze_distance_performance a mean field (avg_ranking, avg_odds) is the
\* mean over exactly the results whose value is present, and null, never 0,
\* when there is none: also when results match and all have the value absent,
\* and for a distance band without races.
C20_MeansOverPresentValuesOrNull ==
    /\ ret.op = "analyze_jockey_performance" =>
          /\ ret.res.kind = "ok"
          /\ MeanEq(ret.res.value.avg_ranking, MeanRankOver(MatchingRows))
          /\ MeanEq(ret.res.value.avg_odds, MeanOddsOver(MatchingRows))
    /\ ret.op = "analyze_track_condition" =>
          /\ ret.res.kind = "ok"
          /\ \A c \in DOMAIN ret.res.value :
                MeanEq(ret.res.value[c].avg_ranking,
                       MeanRankOver({i \in JoinedRows : LabelOfRow(i) = c}))
    /\ ret.op = "analyze_distance_performance" =>
          /\ ret.res.kind = "ok"
          /\ \A b \in Bands :
                /\ b[1] \in DOMAIN ret.res.value
                /\ MeanEq(ret.res.value[b[1]].avg_ranking,
                          MeanRankOver({i \in JoinedRows :
                                          /\ DistanceOfRow(i) # Absent
                                          /\ b[2] < DistanceOfRow(i)
                                          /\ DistanceOfRow(i) <= b[3]}))

\* Reached: analyze_jockey_performance returned for two matching results, both
\* with the rank absent and with different present odds: avg_ranking is null
\* and avg_odds is their mean.
C20_Witness ==
    /\ ret.op = "analyze_jockey_performance"
    /\ Cardinality(MatchingRows) = 2
    /\ \A i \in MatchingRows : results[i].ranking = Absent
    /\ \E i, j \in MatchingRows : results[i].odds = 3 /\ results[j].odds = 5
    /\ ret.res.value.avg_ranking = NoMean
    /\ RatEq(ret.res.value.avg_odds, Frac(4, 1))

\* The results of the horse asked for whose race has a present distance in
\* the interval (lo, hi].
RowsInBand(lo, hi) ==
    {i \in JoinedRows : /\ DistanceOfRow(i) # Absent
                         /\ lo < DistanceOfRow(i)
                         /\ DistanceOfRow(i) <= hi}

\* C21: analyze_distance_performance always returns the four bands sprint,
\* mile, intermediate and long, and counts a result with a present distance d
\* in sprint iff 0 < d <= 1400, mile iff 1400 < d <= 1800, intermediate iff
\* 1800 < d <= 2200, long iff 2200 < d <= 9999: each band's races and wins are
\* those of exactly the results in its half-open interval, so that no result
\* is counted twice and 1400, 1800 and 2200 count in the lower band.
C21_HalfOpenDistanceBands ==
    ret.op = "analyze_distance_performance" =>
        /\ ret.res.kind = "ok"
        /\ DOMAIN ret.res.value = {"sprint", "mile", "intermediate", "long"}
        /\ \A b \in Bands :
              /\ ret.res.value[b[1]].races = Cardinality(RowsInBand(b[2], b[3]))
              /\ ret.res.value[b[1]].wins =
                    Cardinality({i \in RowsInBand(b[2], b[3]) :
                                   results[i].ranking = 1})

\* Reached: analyze_distance_performance returned for a horse with one result
\* over 1400 m and one over 1800 m: they are counted in sprint and in mile,
\* and intermediate and long are present with no race.
C21_Witness ==
    /\ ret.op = "analyze_distance_performance"
    /\ \E i, j \in JoinedRows : DistanceOfRow(i) = 1400 /\ DistanceOfRow(j) = 1800
    /\ ret.res.value["sprint"].races = 1
    /\ ret.res.value["mile"].races = 1
    /\ ret.res.value["intermediate"].races = 0
    /\ ret.res.value["long"].races = 0

\* The races of the window whose selected bet target finished first.
WonRaces ==
    {x \in BetRaces :
        SelectedHorse(ret.strategy, ResultsOfRace(x.race_id))[1].ranking = 1}

\* C27: analyze_return_rate reports total_races = the number of races dated
\* within the window, also those without results or without a qualifying
\* entry, and win_rate = wins / total_races * 100 with wins the number of
\* selected bet targets of rank 1 (0 for an empty window); wins <= bets placed
\* <= total_races and total_investment <= 100 * total_races.
C27_TotalRacesAndWinRate ==
    ret.op = "analyze_return_rate" =>
        /\ ret.res.kind = "ok"
        /\ LET v == ret.res.value
               total == Cardinality(WindowRaces)
               wins == Cardinality(WonRaces)
               bets == v.total_investment \div Stake
           IN  /\ v.total_races = total
               /\ total > 0 => RatEq(v.win_rate, Frac(wins * 100, total))
               /\ bets * Stake = v.total_investment
               /\ wins <= bets
               /\ bets <= v.total_races
               /\ v.total_investment <= 100 * v.total_races

\* Reached: a window of two races, one without a bet and one with a bet that
\* won: total_races = 2, one stake, win_rate = 50.
C27_Witness ==
    /\ ret.op = "analyze_return_rate"
    /\ ret.res.kind = "ok"
    /\ Cardinality(WindowRaces) = 2
    /\ Cardinality(BetRaces) = 1
    /\ Cardinality(WonRaces) = 1
    /\ ret.res.value.total_races = 2
    /\ ret.res.value.total_investment = 100
    /\ RatEq(ret.res.value.win_rate, Frac(50, 1))

\* The value a field of a saved record is to read back with: the input's, or
\* absent when the input has no such field.
InputField(d, key, absent) == IF key \in DOMAIN d THEN d[key] ELSE absent

\* Row x of race_results reads back the fields of the input d saved for race
\* race_id.
ReadsBackResult(x, race_id, d) ==
    /\ x.race_id = race_id
    /\ x.horse_id = InputField(d, "horse_id", NoneStr)
    /\ x.ranking = InputField(d, "ranking", Absent)
    /\ x.jockey = InputField(d, "jockey", NoneStr)
    /\ x.odds = InputField(d, "odds", Absent)
    /\ x.popularity = InputField(d, "popularity", Absent)

\* What the query of table t for the rows of a race returns.
RaceRowsIn(t, race_id) == SelectSeq(t, LAMBDA r : r.race_id = race_id)

\* The step in which the save operation in progress returns True.
SaveSucceeds(op) ==
    /\ wpc # "idle"
    /\ wframe.op = op
    /\ wpc' = "idle"
    /\ ret'.op = op
    /\ ret'.res = Ok(TRUE)

\* The step in which the save operation in progress returns False.
SaveReturnsFalse(op) ==
    /\ wpc # "idle"
    /\ wframe.op = op
    /\ wpc' = "idle"
    /\ ret'.op = op
    /\ ret'.res = Ok(FALSE)

C28_LastSuccessfulSaveReplacesRaceRows ==
    [][/\ results' # results => SaveSucceeds("save_race_results")
       /\ SaveSucceeds("save_race_results") =>
            /\ Len(RaceRowsIn(results', wframe.race_id)) = Len(wframe.results)
            /\ \A k \in 1..Len(wframe.results) :
                  ReadsBackResult(RaceRowsIn(results', wframe.race_id)[k],
                                  wframe.race_id, wframe.results[k])
            /\ \A r \in RaceIds \ {wframe.race_id} :
                  RaceRowsIn(results', r) = RaceRowsIn(results, r)
      ]_vars

\* Reached: a save_race_results call for r1 returned True with one row while
\* r2 holds the row of id 2: the row of r1 has id 3, the row of id 1 it
\* replaced is gone.
C28_Witness ==
    /\ ret.op = "save_race_results"
    /\ ret.race_id = "r1"
    /\ ret.res = Ok(TRUE)
    /\ ret.added = 1
    /\ Len(results) = 2
    /\ results[1].id = 2 /\ results[1].race_id = "r2"
    /\ results[2].id = 3 /\ results[2].race_id = "r1"

\* C29: when save_race_results fails after the delete or after some of the
\* inserts, it returns False and does not raise, race_results holds exactly
\* the rows it held when the call began, and the session of the call is
\* closed; the session is closed as well when the call returns True.
C29_FailedSaveRollsBack ==
    [][/\ SaveReturnsFalse("save_race_results") =>
            /\ results' = wframe.before
            /\ RaceRowsIn(results', wframe.race_id) =
                  RaceRowsIn(wframe.before, wframe.race_id)
            /\ sessions'.writer = 0
       /\ SaveSucceeds("save_race_results") => sessions'.writer = 0
       /\ (wframe.op = "save_race_results" /\ wpc' = "idle" /\ wpc # "idle") =>
            /\ ret'.op = "save_race_results"
            /\ ret'.res \in {Ok(TRUE), Ok(FALSE)}
      ]_vars

\* Reached: a save_race_results call for r1 returned False after the delete
\* and one insert, and the row r1 held before is still there.
C29_Witness ==
    /\ ret.op = "save_race_results"
    /\ ret.race_id = "r1"
    /\ ret.res = Ok(FALSE)
    /\ ret.added = 1
    /\ wpc = "idle"
    /\ sessions.writer = 0
    /\ get_race_results("r1") # << >>

(***************************************************************************)
(* Data-store failures in the engine.  A query of an engine operation may  *)
(* raise; the operations have a try/finally and no except clause, so the   *)
(* exception leaves the operation after session.close().  The handlers of  *)
(* the API answer an exception with status 500.                            *)
(***************************************************************************)

\* The exception a failing query raises.
StoreError == "OperationalError"

\* Variant with an except clause that answers a failed query as no data.
SwallowAsEmpty(e) == Ok(<< >>)

\* The outcome of an engine operation one of whose queries raised e.
Propagate(e) == Raise(e)

CalculateWinRateFails(horse_id, days) ==
    /\ pc = "idle"
    /\ ret' = [op |-> "calculate_win_rate", horse_id |-> horse_id, days |-> days,
               fault |-> StoreError, res |-> Propagate(StoreError)]
    /\ sessions' = [sessions EXCEPT
                       !.engine = CloseInFinally(GetSession(@), ret'.res)]
    /\ UNCHANGED <<races, horses, horse_name, results, pc, frame, wpc, wframe>>

AnalyzeJockeyPerformanceFails(jockey_name, days) ==
    /\ pc = "idle"
    /\ ret' = [op |-> "analyze_jockey_performance", jockey_name |-> jockey_name,
               days |-> days, fault |-> StoreError,
               res |-> Propagate(StoreError)]
    /\ sessions' = [sessions EXCEPT
                       !.engine = CloseInFinally(GetSession(@), ret'.res)]
    /\ UNCHANGED <<races, horses, horse_name, results, pc, frame, wpc, wframe>>

AnalyzeTrackConditionFails(horse_id) ==
    /\ pc = "idle"
    /\ ret' = [op |-> "analyze_track_condition", horse_id |-> horse_id,
               fault |-> StoreError, res |-> Propagate(StoreError)]
    /\ sessions' = [sessions EXCEPT
                       !.engine = CloseInFinally(GetSession(@), ret'.res)]
    /\ UNCHANGED <<races, horses, horse_name, results, pc, frame, wpc, wframe>>

AnalyzeDistancePerformanceFails(horse_id) ==
    /\ pc = "idle"
    /\ ret' = [op |-> "analyze_distance_performance", horse_id |-> horse_id,
               fault |-> StoreError, res |-> Propagate(StoreError)]
    /\ sessions' = [sessions EXCEPT
                       !.engine = CloseInFinally(GetSession(@), ret'.res)]
    /\ UNCHANGED <<races, horses, horse_name, results, pc, frame, wpc, wframe>>

\* get_hot_horses under the handler get_hot_horses
GetHotHorsesFails(limit) ==
    /\ pc = "idle"
    /\ \E res \in {Propagate(StoreError)} :
          ret' = [op |-> "get_hot_horses", limit |-> limit,
                  fault |-> StoreError, res |-> res,
                  response |-> IF res.kind = "raise"
                               THEN [status |-> 500, error |-> res.error]
                               ELSE [status |-> 200, count |-> Len(res.value),
                                     horses |-> res.value]]
    /\ sessions' = [sessions EXCEPT
                       !.engine = CloseInFinally(GetSession(@), ret'.res)]
    /\ UNCHANGED <<races, horses, horse_name, results, pc, frame, wpc, wframe>>

\* predict_race_result: the entries query raises.
PredictEntriesFail(race_id) ==
    /\ pc = "idle"
    /\ \E res \in {Propagate(StoreError)} :
          ret' = [op |-> "predict_race_result", race_id |-> race_id,
                  fault |-> StoreError, res |-> res,
                  response |-> predict_race(race_id, res)]
    /\ sessions' = [sessions EXCEPT
                       !.engine = CloseInFinally(GetSession(@), ret'.res)]
    /\ UNCHANGED <<races, horses, horse_name, results, pc, frame, wpc, wframe>>

\* predict_race_result: the query of an entry's past results raises.
PredictQueryPastFails ==
    /\ pc = "predict_loop"
    /\ frame.i <= Len(frame.entries)
    /\ pc' = "idle"
    /\ frame' = NoFrame
    /\ \E res \in {Propagate(StoreError)} :
          ret' = [op |-> "predict_race_result", race_id |-> frame.race_id,
                  fault |-> StoreError, res |-> res,
                  response |-> predict_race(frame.race_id, res)]
    /\ sessions' = [sessions EXCEPT !.engine = CloseInFinally(@, ret'.res)]
    /\ UNCHANGED <<races, horses, horse_name, results, wpc, wframe>>

\* analyze_return_rate: the races query raises.
ReturnRateRacesFail(strategy, days) ==
    /\ pc = "idle"
    /\ ret' = [op |-> "analyze_return_rate", strategy |-> strategy,
               days |-> days, fault |-> StoreError,
               res |-> Propagate(StoreError)]
    /\ sessions' = [sessions EXCEPT
                       !.engine = CloseInFinally(GetSession(@), ret'.res)]
    /\ UNCHANGED <<races, horses, horse_name, results, pc, frame, wpc, wframe>>

\* analyze_return_rate: the results query of a race raises.
ReturnRateRaceFails ==
    /\ pc = "return_loop"
    /\ frame.i <= Len(frame.races)
    /\ pc' = "idle"
    /\ frame' = NoFrame
    /\ ret' = [op |-> "analyze_return_rate", strategy |-> frame.strategy,
               days |-> frame.days, fault |-> StoreError,
               res |-> Propagate(StoreError)]
    /\ sessions' = [sessions EXCEPT !.engine = CloseInFinally(@, ret'.res)]
    /\ UNCHANGED <<races, horses, horse_name, results, wpc, wframe>>

(***************************************************************************)
(* Engine and ingestion on one store: specification.  From the empty       *)
(* database the ingestion saves race r1, horse h1 and the results of r1,   *)
(* step by step, while the seven engine operations are called, each of     *)
(* their queries succeeding or raising.                                    *)
(***************************************************************************)

SharedRaceData ==
    {[race_id |-> "r1", race_date |-> Today - 10, distance |-> 1600,
      track_condition |-> "ryo"],
     [race_id |-> "r1"]}

SharedHorseData == {[horse_id |-> "h1", horse_name |-> "Alpha"]}

SharedResults ==
    {<< >>,
     <<[horse_id |-> "h1", ranking |-> 1, jockey |-> "j1", odds |-> 3,
        popularity |-> 1]>>,
     <<[horse_id |-> "h1", ranking |-> 1, jockey |-> "j1", odds |-> 3,
        popularity |-> 1],
       [horse_id |-> "h2", ranking |-> 2, jockey |-> "j1", popularity |-> 2]>>}

SharedDays == 365

SharedLimit == 10

NextShared ==
    \/ \E d \in SharedRaceData : SaveRaceBegin(d)
    \/ SaveRaceCommit
    \/ SaveRaceFails
    \/ \E d \in SharedHorseData : SaveHorseBegin(d)
    \/ SaveHorseCommit
    \/ SaveHorseFails
    \/ \E rows \in SharedResults : SaveRaceResultsBegin("r1", rows)
    \/ SaveRaceResultsDelete
    \/ SaveRaceResultsAdd
    \/ SaveRaceResultsCommit
    \/ SaveRaceResultsFails
    \/ CalculateWinRate("h1", SharedDays)
    \/ CalculateWinRateFails("h1", SharedDays)
    \/ AnalyzeJockeyPerformance("j1", SharedDays)
    \/ AnalyzeJockeyPerformanceFails("j1", SharedDays)
    \/ AnalyzeTrackCondition("h1")
    \/ AnalyzeTrackConditionFails("h1")
    \/ AnalyzeDistancePerformance("h1")
    \/ AnalyzeDistancePerformanceFails("h1")
    \/ GetHotHorses(SharedLimit)
    \/ GetHotHorsesFails(SharedLimit)
    \/ PredictStart("r1")
    \/ PredictEntriesFail("r1")
    \/ PredictQueryPast
    \/ PredictQueryPastFails
    \/ PredictScore
    \/ PredictReturn
    \/ ReturnRateStart("favorite", SharedDays)
    \/ ReturnRateRacesFail("favorite", SharedDays)
    \/ ReturnRateRace
    \/ ReturnRateRaceFails
    \/ ReturnRateReturn

SpecShared == Init /\ [][NextShared]_vars

\* The engine operations.
EngineOps ==
    {"calculate_win_rate", "analyze_jockey_performance",
     "analyze_track_condition", "analyze_distance_performance",
     "predict_race_result", "analyze_return_rate", "get_hot_horses"}

\* C22: every engine operation opens one session per call and closes it on
\* every exit path: while a call is in progress the engine holds exactly one
\* open session, and after any sequence of calls that returned or raised,
\* a failed query included, it holds none.
C22_EngineSessionsClosedOnEveryExit ==
    /\ pc = "idle" => sessions.engine = 0
    /\ pc # "idle" => sessions.engine = 1

\* Reached: predict_race_result raised the failure of a query of its loop,
\* and no engine session is open.
C22_Witness ==
    /\ ret.op = "predict_race_result"
    /\ "fault" \in DOMAIN ret
    /\ ret.res.kind = "raise"
    /\ pc = "idle"
    /\ sessions.engine = 0
    /\ \E i \in 1..Len(results) :
          results[i].race_id = ret.race_id /\ results[i].horse_id \in horses

\* The step in which a call of an engine operation ends.
EngineCallEnds ==
    /\ wpc' = wpc
    /\ wframe' = wframe
    /\ pc' = "idle"
    /\ ret'.op \in EngineOps

\* The results of the horse whose race is dated within the last days days.
StoredWindowRows(horse_id, days) ==
    {i \in 1..Len(results) :
        /\ results[i].horse_id = horse_id
        /\ \E x \in races : /\ x.race_id = results[i].race_id
                            /\ x.race_date # Absent
                            /\ x.race_date >= Today - days}

\* The same for the results of a jockey.
StoredJockeyRows(jockey_name, days) ==
    {i \in 1..Len(results) :
        /\ results[i].jockey = jockey_name
        /\ \E x \in races : /\ x.race_id = results[i].race_id
                            /\ x.race_date # Absent
                            /\ x.race_date >= Today - days}

\* C23: when a query of an engine operation raises, the call ends at once
\* with that very exception: it is not retried and not answered with an
\* empty or zero-valued result; and a call none of whose queries raised
\* does not report a store failure.  The zero-valued record of
\* calculate_win_rate and analyze_jockey_performance is returned only when
\* the store holds no matching result at the time of the call.
C23_StoreFailurePropagates ==
    [][EngineCallEnds =>
         /\ "fault" \in DOMAIN ret' =>
               /\ ret'.res = Raise(ret'.fault)
               /\ "response" \in DOMAIN ret' =>
                     ret'.response = [status |-> 500, error |-> ret'.fault]
         /\ "fault" \notin DOMAIN ret' => ret'.res # Raise(StoreError)
         /\ (ret'.op = "calculate_win_rate" /\ ret'.res.kind = "ok"
               /\ ret'.res.value.total_races = 0) =>
               /\ "fault" \notin DOMAIN ret'
               /\ StoredWindowRows(ret'.horse_id, ret'.days) = {}
         /\ (ret'.op = "analyze_jockey_performance" /\ ret'.res.kind = "ok"
               /\ ret'.res.value.total_races = 0) =>
               /\ "fault" \notin DOMAIN ret'
               /\ StoredJockeyRows(ret'.jockey_name, ret'.days) = {}
      ]_vars

\* Reached: calculate_win_rate raised the store failure while the store
\* holds a matching result of the horse.
C23_Witness ==
    /\ ret.op = "calculate_win_rate"
    /\ "fault" \in DOMAIN ret
    /\ ret.res = Raise(StoreError)
    /\ StoredWindowRows(ret.horse_id, ret.days) # {}

\* C24: a step of an engine operation, whichever of the seven and whether it
\* returns, raises or is in the middle of a call, leaves the tables races,
\* horses and race_results as they are: the store changes in the steps of
\* the save operations only.
C24_EngineStepsLeaveStoreUnchanged ==
    [][(wpc' = wpc /\ wframe' = wframe) =>
          UNCHANGED <<races, horses, horse_name, results>>]_vars

\* Reached: get_hot_horses returned over a store that holds a race, a horse
\* and two results.
C24_Witness ==
    /\ ret.op = "get_hot_horses"
    /\ ret.res.kind = "ok"
    /\ races # {}
    /\ horses # {}
    /\ Len(results) = 2

\* C25: while a save operation is in flight the tables the engine reads are
\* the tables as they were when the save began, so every query of an engine
\* call running meanwhile sees the state before the write, and never a race
\* whose old results are deleted and whose new ones are inserted in part;
\* once save_race_results has returned True the race holds all the rows of
\* the call.
C25_EngineReadsPreOrPostWriteState ==
    /\ wpc = "save_race" => races = wframe.before
    /\ wpc = "save_horse" => <<horses, horse_name>> = wframe.before
    /\ wpc \in {"delete", "add"} =>
          /\ results = wframe.before
          /\ ResultsOfRace(wframe.race_id) =
                RaceRowsIn(wframe.before, wframe.race_id)
    /\ (wpc = "idle" /\ ret.op = "save_race_results" /\ ret.res = Ok(TRUE)) =>
          Len(ResultsOfRace(ret.race_id)) = ret.added

\* Reached: analyze_return_rate is about to query the results of race r1
\* while save_race_results for r1 has deleted the two old rows and inserted
\* the first of its two rows: the query sees the two old rows.
C25_Witness ==
    /\ pc = "return_loop"
    /\ frame.i = 1
    /\ Len(frame.races) = 1
    /\ frame.races[1].race_id = "r1"
    /\ wpc = "add"
    /\ wframe.race_id = "r1"
    /\ Len(wframe.results) = 2
    /\ wframe.i = 1
    /\ Len(ResultsOfRace("r1")) = 2
    /\ Len(wframe.table) = 1

====
